---- MODULE Spec2Model ----
(***************************************************************************)
(* Model of the transaction pipeline of finance-analyzer: the card and     *)
(* peer-payment adapters, the merge and the credit-card-payment filter     *)
(* (finance_analyzer.py, web_app/data_processor.py), the rule-based        *)
(* categorizer, and the totals computed by the aggregations.               *)
(*                                                                         *)
(* Text is a sequence of one-character strings, so that upper-casing and   *)
(* substring search are computed and not assumed.  An empty CSV field is   *)
(* read by pandas as NaN: the empty sequence stands for a NaN text field   *)
(* and the string "NaN" for a NaN category label.                          *)
(***************************************************************************)
EXTENDS Integers, Sequences, FiniteSets, TLC

VARIABLES
    cardFile,          \* rows of the Discover CSV
    venmoNative,       \* rows of the Venmo statement given to VenmoCategorizer
    categorized_data,  \* VenmoCategorizer.categorized_data: ID -> category
    venmoFile,         \* venmo_categorized_transactions.csv, or NoFile
    path,              \* "none", "cli" or "web": the entry point that ran
    discoverOut,       \* output of the card adapter
    venmoOut,          \* output of the peer-payment adapter
    ledger,            \* the data frame returned by the entry point
    events,            \* the pipeline stages executed, in execution order
    pc,                \* "start", "loaded", "analyzed" or "error"
    metrics,           \* st.session_state.metrics (web), or NoResult
    insights,          \* the result of the last aggregation run on the ledger
    rowIn,             \* one input row, given to a row function on its own
    rowOut,            \* what the row function returned
    window,            \* <<start_date, end_date>> given to the entry point, <<>> before
    budgetIn,          \* the arguments of the internship budget analysis, and today
    budgetOut,         \* what the internship budget analysis returned
    session,           \* st.session_state of the web categorizer
    categorizer        \* the run of VenmoCategorizer: progress file, position in the loop

vars == <<cardFile, venmoNative, categorized_data, venmoFile, path, discoverOut,
          venmoOut, ledger, events, pc, metrics, insights, rowIn, rowOut, window,
          budgetIn, budgetOut, session, categorizer>>

pipelineVars == <<cardFile, venmoNative, categorized_data, venmoFile, path,
                  discoverOut, venmoOut, ledger, events, pc, metrics, insights,
                  window, budgetIn, budgetOut, session, categorizer>>

-----------------------------------------------------------------------------
(* Bounds of the model *)

\* rows of the card file plus rows of the peer-payment statement
MaxRows == 2

\* transaction dates are the days 1..MaxDay
MaxDay == 2

Days == 1..MaxDay

-----------------------------------------------------------------------------
(* Text *)

NaN == "NaN"

NaNText == <<>>

\* what a function gives that raises AttributeError instead of returning
AttributeError == "AttributeError"

\* an absent optional argument (Python None) is the empty sequence, a given one <<v>>
None == <<>>

LowerLetters == <<"a", "b", "c", "d", "e", "f", "g", "h", "i", "j", "k", "l", "m", "n", "o", "p", "q", "r", "s", "t", "u", "v", "w", "x", "y", "z">>

UpperLetters == <<"A", "B", "C", "D", "E", "F", "G", "H", "I", "J", "K", "L", "M", "N", "O", "P", "Q", "R", "S", "T", "U", "V", "W", "X", "Y", "Z">>

\* A character is a one-character string; a character outside ASCII is written as
\* the name of its code point.
LongS == "U+017F"

SharpS == "U+00DF"

DotlessI == "U+0131"

DottedCapitalI == "U+0130"

SmallEAcute == "U+00E9"

LigatureFf == "U+FB00"

LigatureFi == "U+FB01"

LigatureSt == "U+FB06"

SmallYRingAbove == "U+1E99"

\* the characters outside ASCII that str.upper() turns into one other character,
\* in the order of their code points
UpperFrom ==
    <<"U+00B5", "U+00E0", "U+00E1", "U+00E2", "U+00E3", "U+00E4", "U+00E5", "U+00E6",
      "U+00E7", "U+00E8", "U+00E9", "U+00EA", "U+00EB", "U+00EC", "U+00ED", "U+00EE",
      "U+00EF", "U+00F0", "U+00F1", "U+00F2", "U+00F3", "U+00F4", "U+00F5", "U+00F6",
      "U+00F8", "U+00F9", "U+00FA", "U+00FB", "U+00FC", "U+00FD", "U+00FE", "U+00FF",
      "U+0101", "U+0103", "U+0105", "U+0107", "U+0109", "U+010B", "U+010D", "U+010F",
      "U+0111", "U+0113", "U+0115", "U+0117", "U+0119", "U+011B", "U+011D", "U+011F",
      "U+0121", "U+0123", "U+0125", "U+0127", "U+0129", "U+012B", "U+012D", "U+012F",
      "U+0131", "U+0133", "U+0135", "U+0137", "U+013A", "U+013C", "U+013E", "U+0140",
      "U+0142", "U+0144", "U+0146", "U+0148", "U+014B", "U+014D", "U+014F", "U+0151",
      "U+0153", "U+0155", "U+0157", "U+0159", "U+015B", "U+015D", "U+015F", "U+0161",
      "U+0163", "U+0165", "U+0167", "U+0169", "U+016B", "U+016D", "U+016F", "U+0171",
      "U+0173", "U+0175", "U+0177", "U+017A", "U+017C", "U+017E", "U+017F", "U+0180",
      "U+0183", "U+0185", "U+0188", "U+018C", "U+0192", "U+0195", "U+0199", "U+019A",
      "U+019E", "U+01A1", "U+01A3", "U+01A5", "U+01A8", "U+01AD", "U+01B0", "U+01B4",
      "U+01B6", "U+01B9", "U+01BD", "U+01BF", "U+01C5", "U+01C6", "U+01C8", "U+01C9",
      "U+01CB", "U+01CC", "U+01CE", "U+01D0", "U+01D2", "U+01D4", "U+01D6", "U+01D8",
      "U+01DA", "U+01DC", "U+01DD", "U+01DF", "U+01E1", "U+01E3", "U+01E5", "U+01E7",
      "U+01E9", "U+01EB", "U+01ED", "U+01EF", "U+01F2", "U+01F3", "U+01F5", "U+01F9",
      "U+01FB", "U+01FD", "U+01FF", "U+0201", "U+0203", "U+0205", "U+0207", "U+0209",
      "U+020B", "U+020D", "U+020F", "U+0211", "U+0213", "U+0215", "U+0217", "U+0219",
      "U+021B", "U+021D", "U+021F", "U+0223", "U+0225", "U+0227", "U+0229", "U+022B",
      "U+022D", "U+022F", "U+0231", "U+0233", "U+023C", "U+023F", "U+0240", "U+0242",
      "U+0247", "U+0249", "U+024B", "U+024D", "U+024F", "U+0250", "U+0251", "U+0252",
      "U+0253", "U+0254", "U+0256", "U+0257", "U+0259", "U+025B", "U+025C", "U+0260",
      "U+0261", "U+0263", "U+0265", "U+0266", "U+0268", "U+0269", "U+026A", "U+026B",
      "U+026C", "U+026F", "U+0271", "U+0272", "U+0275", "U+027D", "U+0280", "U+0282",
      "U+0283", "U+0287", "U+0288", "U+0289", "U+028A", "U+028B", "U+028C", "U+0292",
      "U+029D", "U+029E", "U+0345", "U+0371", "U+0373", "U+0377", "U+037B", "U+037C",
      "U+037D", "U+03AC", "U+03AD", "U+03AE", "U+03AF", "U+03B1", "U+03B2", "U+03B3",
      "U+03B4", "U+03B5", "U+03B6", "U+03B7", "U+03B8", "U+03B9", "U+03BA", "U+03BB",
      "U+03BC", "U+03BD", "U+03BE", "U+03BF", "U+03C0", "U+03C1", "U+03C2", "U+03C3",
      "U+03C4", "U+03C5", "U+03C6", "U+03C7", "U+03C8", "U+03C9", "U+03CA", "U+03CB",
      "U+03CC", "U+03CD", "U+03CE", "U+03D0", "U+03D1", "U+03D5", "U+03D6", "U+03D7",
      "U+03D9", "U+03DB", "U+03DD", "U+03DF", "U+03E1", "U+03E3", "U+03E5", "U+03E7",
      "U+03E9", "U+03EB", "U+03ED", "U+03EF", "U+03F0", "U+03F1", "U+03F2", "U+03F3",
      "U+03F5", "U+03F8", "U+03FB", "U+0430", "U+0431", "U+0432", "U+0433", "U+0434",
      "U+0435", "U+0436", "U+0437", "U+0438", "U+0439", "U+043A", "U+043B", "U+043C",
      "U+043D", "U+043E", "U+043F", "U+0440", "U+0441", "U+0442", "U+0443", "U+0444",
      "U+0445", "U+0446", "U+0447", "U+0448", "U+0449", "U+044A", "U+044B", "U+044C",
      "U+044D", "U+044E", "U+044F", "U+0450", "U+0451", "U+0452", "U+0453", "U+0454",
      "U+0455", "U+0456", "U+0457", "U+0458", "U+0459", "U+045A", "U+045B", "U+045C",
      "U+045D", "U+045E", "U+045F", "U+0461", "U+0463", "U+0465", "U+0467", "U+0469",
      "U+046B", "U+046D", "U+046F", "U+0471", "U+0473", "U+0475", "U+0477", "U+0479",
      "U+047B", "U+047D", "U+047F", "U+0481", "U+048B", "U+048D", "U+048F", "U+0491",
      "U+0493", "U+0495", "U+0497", "U+0499", "U+049B", "U+049D", "U+049F", "U+04A1",
      "U+04A3", "U+04A5", "U+04A7", "U+04A9", "U+04AB", "U+04AD", "U+04AF", "U+04B1",
      "U+04B3", "U+04B5", "U+04B7", "U+04B9", "U+04BB", "U+04BD", "U+04BF", "U+04C2",
      "U+04C4", "U+04C6", "U+04C8", "U+04CA", "U+04CC", "U+04CE", "U+04CF", "U+04D1",
      "U+04D3", "U+04D5", "U+04D7", "U+04D9", "U+04DB", "U+04DD", "U+04DF", "U+04E1",
      "U+04E3", "U+04E5", "U+04E7", "U+04E9", "U+04EB", "U+04ED", "U+04EF", "U+04F1",
      "U+04F3", "U+04F5", "U+04F7", "U+04F9", "U+04FB", "U+04FD", "U+04FF", "U+0501",
      "U+0503", "U+0505", "U+0507", "U+0509", "U+050B", "U+050D", "U+050F", "U+0511",
      "U+0513", "U+0515", "U+0517", "U+0519", "U+051B", "U+051D", "U+051F", "U+0521",
      "U+0523", "U+0525", "U+0527", "U+0529", "U+052B", "U+052D", "U+052F", "U+0561",
      "U+0562", "U+0563", "U+0564", "U+0565", "U+0566", "U+0567", "U+0568", "U+0569",
      "U+056A", "U+056B", "U+056C", "U+056D", "U+056E", "U+056F", "U+0570", "U+0571",
      "U+0572", "U+0573", "U+0574", "U+0575", "U+0576", "U+0577", "U+0578", "U+0579",
      "U+057A", "U+057B", "U+057C", "U+057D", "U+057E", "U+057F", "U+0580", "U+0581",
      "U+0582", "U+0583", "U+0584", "U+0585", "U+0586", "U+10D0", "U+10D1", "U+10D2",
      "U+10D3", "U+10D4", "U+10D5", "U+10D6", "U+10D7", "U+10D8", "U+10D9", "U+10DA",
      "U+10DB", "U+10DC", "U+10DD", "U+10DE", "U+10DF", "U+10E0", "U+10E1", "U+10E2",
      "U+10E3", "U+10E4", "U+10E5", "U+10E6", "U+10E7", "U+10E8", "U+10E9", "U+10EA",
      "U+10EB", "U+10EC", "U+10ED", "U+10EE", "U+10EF", "U+10F0", "U+10F1", "U+10F2",
      "U+10F3", "U+10F4", "U+10F5", "U+10F6", "U+10F7", "U+10F8", "U+10F9", "U+10FA",
      "U+10FD", "U+10FE", "U+10FF", "U+13F8", "U+13F9", "U+13FA", "U+13FB", "U+13FC",
      "U+13FD", "U+1C80", "U+1C81", "U+1C82", "U+1C83", "U+1C84", "U+1C85", "U+1C86",
      "U+1C87", "U+1C88", "U+1D79", "U+1D7D", "U+1D8E", "U+1E01", "U+1E03", "U+1E05",
      "U+1E07", "U+1E09", "U+1E0B", "U+1E0D", "U+1E0F", "U+1E11", "U+1E13", "U+1E15",
      "U+1E17", "U+1E19", "U+1E1B", "U+1E1D", "U+1E1F", "U+1E21", "U+1E23", "U+1E25",
      "U+1E27", "U+1E29", "U+1E2B", "U+1E2D", "U+1E2F", "U+1E31", "U+1E33", "U+1E35",
      "U+1E37", "U+1E39", "U+1E3B", "U+1E3D", "U+1E3F", "U+1E41", "U+1E43", "U+1E45",
      "U+1E47", "U+1E49", "U+1E4B", "U+1E4D", "U+1E4F", "U+1E51", "U+1E53", "U+1E55",
      "U+1E57", "U+1E59", "U+1E5B", "U+1E5D", "U+1E5F", "U+1E61", "U+1E63", "U+1E65",
      "U+1E67", "U+1E69", "U+1E6B", "U+1E6D", "U+1E6F", "U+1E71", "U+1E73", "U+1E75",
      "U+1E77", "U+1E79", "U+1E7B", "U+1E7D", "U+1E7F", "U+1E81", "U+1E83", "U+1E85",
      "U+1E87", "U+1E89", "U+1E8B", "U+1E8D", "U+1E8F", "U+1E91", "U+1E93", "U+1E95",
      "U+1E9B", "U+1EA1", "U+1EA3", "U+1EA5", "U+1EA7", "U+1EA9", "U+1EAB", "U+1EAD",
      "U+1EAF", "U+1EB1", "U+1EB3", "U+1EB5", "U+1EB7", "U+1EB9", "U+1EBB", "U+1EBD",
      "U+1EBF", "U+1EC1", "U+1EC3", "U+1EC5", "U+1EC7", "U+1EC9", "U+1ECB", "U+1ECD",
      "U+1ECF", "U+1ED1", "U+1ED3", "U+1ED5", "U+1ED7", "U+1ED9", "U+1EDB", "U+1EDD",
      "U+1EDF", "U+1EE1", "U+1EE3", "U+1EE5", "U+1EE7", "U+1EE9", "U+1EEB", "U+1EED",
      "U+1EEF", "U+1EF1", "U+1EF3", "U+1EF5", "U+1EF7", "U+1EF9", "U+1EFB", "U+1EFD",
      "U+1EFF", "U+1F00", "U+1F01", "U+1F02", "U+1F03", "U+1F04", "U+1F05", "U+1F06",
      "U+1F07", "U+1F10", "U+1F11", "U+1F12", "U+1F13", "U+1F14", "U+1F15", "U+1F20",
      "U+1F21", "U+1F22", "U+1F23", "U+1F24", "U+1F25", "U+1F26", "U+1F27", "U+1F30",
      "U+1F31", "U+1F32", "U+1F33", "U+1F34", "U+1F35", "U+1F36", "U+1F37", "U+1F40",
      "U+1F41", "U+1F42", "U+1F43", "U+1F44", "U+1F45", "U+1F51", "U+1F53", "U+1F55",
      "U+1F57", "U+1F60", "U+1F61", "U+1F62", "U+1F63", "U+1F64", "U+1F65", "U+1F66",
      "U+1F67", "U+1F70", "U+1F71", "U+1F72", "U+1F73", "U+1F74", "U+1F75", "U+1F76",
      "U+1F77", "U+1F78", "U+1F79", "U+1F7A", "U+1F7B", "U+1F7C", "U+1F7D", "U+1FB0",
      "U+1FB1", "U+1FBE", "U+1FD0", "U+1FD1", "U+1FE0", "U+1FE1", "U+1FE5", "U+214E",
      "U+2170", "U+2171", "U+2172", "U+2173", "U+2174", "U+2175", "U+2176", "U+2177",
      "U+2178", "U+2179", "U+217A", "U+217B", "U+217C", "U+217D", "U+217E", "U+217F",
      "U+2184", "U+24D0", "U+24D1", "U+24D2", "U+24D3", "U+24D4", "U+24D5", "U+24D6",
      "U+24D7", "U+24D8", "U+24D9", "U+24DA", "U+24DB", "U+24DC", "U+24DD", "U+24DE",
      "U+24DF", "U+24E0", "U+24E1", "U+24E2", "U+24E3", "U+24E4", "U+24E5", "U+24E6",
      "U+24E7", "U+24E8", "U+24E9", "U+2C30", "U+2C31", "U+2C32", "U+2C33", "U+2C34",
      "U+2C35", "U+2C36", "U+2C37", "U+2C38", "U+2C39", "U+2C3A", "U+2C3B", "U+2C3C",
      "U+2C3D", "U+2C3E", "U+2C3F", "U+2C40", "U+2C41", "U+2C42", "U+2C43", "U+2C44",
      "U+2C45", "U+2C46", "U+2C47", "U+2C48", "U+2C49", "U+2C4A", "U+2C4B", "U+2C4C",
      "U+2C4D", "U+2C4E", "U+2C4F", "U+2C50", "U+2C51", "U+2C52", "U+2C53", "U+2C54",
      "U+2C55", "U+2C56", "U+2C57", "U+2C58", "U+2C59", "U+2C5A", "U+2C5B", "U+2C5C",
      "U+2C5D", "U+2C5E", "U+2C5F", "U+2C61", "U+2C65", "U+2C66", "U+2C68", "U+2C6A",
      "U+2C6C", "U+2C73", "U+2C76", "U+2C81", "U+2C83", "U+2C85", "U+2C87", "U+2C89",
      "U+2C8B", "U+2C8D", "U+2C8F", "U+2C91", "U+2C93", "U+2C95", "U+2C97", "U+2C99",
      "U+2C9B", "U+2C9D", "U+2C9F", "U+2CA1", "U+2CA3", "U+2CA5", "U+2CA7", "U+2CA9",
      "U+2CAB", "U+2CAD", "U+2CAF", "U+2CB1", "U+2CB3", "U+2CB5", "U+2CB7", "U+2CB9",
      "U+2CBB", "U+2CBD", "U+2CBF", "U+2CC1", "U+2CC3", "U+2CC5", "U+2CC7", "U+2CC9",
      "U+2CCB", "U+2CCD", "U+2CCF", "U+2CD1", "U+2CD3", "U+2CD5", "U+2CD7", "U+2CD9",
      "U+2CDB", "U+2CDD", "U+2CDF", "U+2CE1", "U+2CE3", "U+2CEC", "U+2CEE", "U+2CF3",
      "U+2D00", "U+2D01", "U+2D02", "U+2D03", "U+2D04", "U+2D05", "U+2D06", "U+2D07",
      "U+2D08", "U+2D09", "U+2D0A", "U+2D0B", "U+2D0C", "U+2D0D", "U+2D0E", "U+2D0F",
      "U+2D10", "U+2D11", "U+2D12", "U+2D13", "U+2D14", "U+2D15", "U+2D16", "U+2D17",
      "U+2D18", "U+2D19", "U+2D1A", "U+2D1B", "U+2D1C", "U+2D1D", "U+2D1E", "U+2D1F",
      "U+2D20", "U+2D21", "U+2D22", "U+2D23", "U+2D24", "U+2D25", "U+2D27", "U+2D2D",
      "U+A641", "U+A643", "U+A645", "U+A647", "U+A649", "U+A64B", "U+A64D", "U+A64F",
      "U+A651", "U+A653", "U+A655", "U+A657", "U+A659", "U+A65B", "U+A65D", "U+A65F",
      "U+A661", "U+A663", "U+A665", "U+A667", "U+A669", "U+A66B", "U+A66D", "U+A681",
      "U+A683", "U+A685", "U+A687", "U+A689", "U+A68B", "U+A68D", "U+A68F", "U+A691",
      "U+A693", "U+A695", "U+A697", "U+A699", "U+A69B", "U+A723", "U+A725", "U+A727",
      "U+A729", "U+A72B", "U+A72D", "U+A72F", "U+A733", "U+A735", "U+A737", "U+A739",
      "U+A73B", "U+A73D", "U+A73F", "U+A741", "U+A743", "U+A745", "U+A747", "U+A749",
      "U+A74B", "U+A74D", "U+A74F", "U+A751", "U+A753", "U+A755", "U+A757", "U+A759",
      "U+A75B", "U+A75D", "U+A75F", "U+A761", "U+A763", "U+A765", "U+A767", "U+A769",
      "U+A76B", "U+A76D", "U+A76F", "U+A77A", "U+A77C", "U+A77F", "U+A781", "U+A783",
      "U+A785", "U+A787", "U+A78C", "U+A791", "U+A793", "U+A794", "U+A797", "U+A799",
      "U+A79B", "U+A79D", "U+A79F", "U+A7A1", "U+A7A3", "U+A7A5", "U+A7A7", "U+A7A9",
      "U+A7B5", "U+A7B7", "U+A7B9", "U+A7BB", "U+A7BD", "U+A7BF", "U+A7C1", "U+A7C3",
      "U+A7C8", "U+A7CA", "U+A7D1", "U+A7D7", "U+A7D9", "U+A7F6", "U+AB53", "U+AB70",
      "U+AB71", "U+AB72", "U+AB73", "U+AB74", "U+AB75", "U+AB76", "U+AB77", "U+AB78",
      "U+AB79", "U+AB7A", "U+AB7B", "U+AB7C", "U+AB7D", "U+AB7E", "U+AB7F", "U+AB80",
      "U+AB81", "U+AB82", "U+AB83", "U+AB84", "U+AB85", "U+AB86", "U+AB87", "U+AB88",
      "U+AB89", "U+AB8A", "U+AB8B", "U+AB8C", "U+AB8D", "U+AB8E", "U+AB8F", "U+AB90",
      "U+AB91", "U+AB92", "U+AB93", "U+AB94", "U+AB95", "U+AB96", "U+AB97", "U+AB98",
      "U+AB99", "U+AB9A", "U+AB9B", "U+AB9C", "U+AB9D", "U+AB9E", "U+AB9F", "U+ABA0",
      "U+ABA1", "U+ABA2", "U+ABA3", "U+ABA4", "U+ABA5", "U+ABA6", "U+ABA7", "U+ABA8",
      "U+ABA9", "U+ABAA", "U+ABAB", "U+ABAC", "U+ABAD", "U+ABAE", "U+ABAF", "U+ABB0",
      "U+ABB1", "U+ABB2", "U+ABB3", "U+ABB4", "U+ABB5", "U+ABB6", "U+ABB7", "U+ABB8",
      "U+ABB9", "U+ABBA", "U+ABBB", "U+ABBC", "U+ABBD", "U+ABBE", "U+ABBF", "U+FF41",
      "U+FF42", "U+FF43", "U+FF44", "U+FF45", "U+FF46", "U+FF47", "U+FF48", "U+FF49",
      "U+FF4A", "U+FF4B", "U+FF4C", "U+FF4D", "U+FF4E", "U+FF4F", "U+FF50", "U+FF51",
      "U+FF52", "U+FF53", "U+FF54", "U+FF55", "U+FF56", "U+FF57", "U+FF58", "U+FF59",
      "U+FF5A", "U+10428", "U+10429", "U+1042A", "U+1042B", "U+1042C", "U+1042D", "U+1042E",
      "U+1042F", "U+10430", "U+10431", "U+10432", "U+10433", "U+10434", "U+10435", "U+10436",
      "U+10437", "U+10438", "U+10439", "U+1043A", "U+1043B", "U+1043C", "U+1043D", "U+1043E",
      "U+1043F", "U+10440", "U+10441", "U+10442", "U+10443", "U+10444", "U+10445", "U+10446",
      "U+10447", "U+10448", "U+10449", "U+1044A", "U+1044B", "U+1044C", "U+1044D", "U+1044E",
      "U+1044F", "U+104D8", "U+104D9", "U+104DA", "U+104DB", "U+104DC", "U+104DD", "U+104DE",
      "U+104DF", "U+104E0", "U+104E1", "U+104E2", "U+104E3", "U+104E4", "U+104E5", "U+104E6",
      "U+104E7", "U+104E8", "U+104E9", "U+104EA", "U+104EB", "U+104EC", "U+104ED", "U+104EE",
      "U+104EF", "U+104F0", "U+104F1", "U+104F2", "U+104F3", "U+104F4", "U+104F5", "U+104F6",
      "U+104F7", "U+104F8", "U+104F9", "U+104FA", "U+104FB", "U+10597", "U+10598", "U+10599",
      "U+1059A", "U+1059B", "U+1059C", "U+1059D", "U+1059E", "U+1059F", "U+105A0", "U+105A1",
      "U+105A3", "U+105A4", "U+105A5", "U+105A6", "U+105A7", "U+105A8", "U+105A9", "U+105AA",
      "U+105AB", "U+105AC", "U+105AD", "U+105AE", "U+105AF", "U+105B0", "U+105B1", "U+105B3",
      "U+105B4", "U+105B5", "U+105B6", "U+105B7", "U+105B8", "U+105B9", "U+105BB", "U+105BC",
      "U+10CC0", "U+10CC1", "U+10CC2", "U+10CC3", "U+10CC4", "U+10CC5", "U+10CC6", "U+10CC7",
      "U+10CC8", "U+10CC9", "U+10CCA", "U+10CCB", "U+10CCC", "U+10CCD", "U+10CCE", "U+10CCF",
      "U+10CD0", "U+10CD1", "U+10CD2", "U+10CD3", "U+10CD4", "U+10CD5", "U+10CD6", "U+10CD7",
      "U+10CD8", "U+10CD9", "U+10CDA", "U+10CDB", "U+10CDC", "U+10CDD", "U+10CDE", "U+10CDF",
      "U+10CE0", "U+10CE1", "U+10CE2", "U+10CE3", "U+10CE4", "U+10CE5", "U+10CE6", "U+10CE7",
      "U+10CE8", "U+10CE9", "U+10CEA", "U+10CEB", "U+10CEC", "U+10CED", "U+10CEE", "U+10CEF",
      "U+10CF0", "U+10CF1", "U+10CF2", "U+118C0", "U+118C1", "U+118C2", "U+118C3", "U+118C4",
      "U+118C5", "U+118C6", "U+118C7", "U+118C8", "U+118C9", "U+118CA", "U+118CB", "U+118CC",
      "U+118CD", "U+118CE", "U+118CF", "U+118D0", "U+118D1", "U+118D2", "U+118D3", "U+118D4",
      "U+118D5", "U+118D6", "U+118D7", "U+118D8", "U+118D9", "U+118DA", "U+118DB", "U+118DC",
      "U+118DD", "U+118DE", "U+118DF", "U+16E60", "U+16E61", "U+16E62", "U+16E63", "U+16E64",
      "U+16E65", "U+16E66", "U+16E67", "U+16E68", "U+16E69", "U+16E6A", "U+16E6B", "U+16E6C",
      "U+16E6D", "U+16E6E", "U+16E6F", "U+16E70", "U+16E71", "U+16E72", "U+16E73", "U+16E74",
      "U+16E75", "U+16E76", "U+16E77", "U+16E78", "U+16E79", "U+16E7A", "U+16E7B", "U+16E7C",
      "U+16E7D", "U+16E7E", "U+16E7F", "U+1E922", "U+1E923", "U+1E924", "U+1E925", "U+1E926",
      "U+1E927", "U+1E928", "U+1E929", "U+1E92A", "U+1E92B", "U+1E92C", "U+1E92D", "U+1E92E",
      "U+1E92F", "U+1E930", "U+1E931", "U+1E932", "U+1E933", "U+1E934", "U+1E935", "U+1E936",
      "U+1E937", "U+1E938", "U+1E939", "U+1E93A", "U+1E93B", "U+1E93C", "U+1E93D", "U+1E93E",
      "U+1E93F", "U+1E940", "U+1E941", "U+1E942", "U+1E943">>

\* what str.upper() turns them into, place by place
UpperTo ==
    <<"U+039C", "U+00C0", "U+00C1", "U+00C2", "U+00C3", "U+00C4", "U+00C5", "U+00C6",
      "U+00C7", "U+00C8", "U+00C9", "U+00CA", "U+00CB", "U+00CC", "U+00CD", "U+00CE",
      "U+00CF", "U+00D0", "U+00D1", "U+00D2", "U+00D3", "U+00D4", "U+00D5", "U+00D6",
      "U+00D8", "U+00D9", "U+00DA", "U+00DB", "U+00DC", "U+00DD", "U+00DE", "U+0178",
      "U+0100", "U+0102", "U+0104", "U+0106", "U+0108", "U+010A", "U+010C", "U+010E",
      "U+0110", "U+0112", "U+0114", "U+0116", "U+0118", "U+011A", "U+011C", "U+011E",
      "U+0120", "U+0122", "U+0124", "U+0126", "U+0128", "U+012A", "U+012C", "U+012E",
      "I", "U+0132", "U+0134", "U+0136", "U+0139", "U+013B", "U+013D", "U+013F",
      "U+0141", "U+0143", "U+0145", "U+0147", "U+014A", "U+014C", "U+014E", "U+0150",
      "U+0152", "U+0154", "U+0156", "U+0158", "U+015A", "U+015C", "U+015E", "U+0160",
      "U+0162", "U+0164", "U+0166", "U+0168", "U+016A", "U+016C", "U+016E", "U+0170",
      "U+0172", "U+0174", "U+0176", "U+0179", "U+017B", "U+017D", "S", "U+0243",
      "U+0182", "U+0184", "U+0187", "U+018B", "U+0191", "U+01F6", "U+0198", "U+023D",
      "U+0220", "U+01A0", "U+01A2", "U+01A4", "U+01A7", "U+01AC", "U+01AF", "U+01B3",
      "U+01B5", "U+01B8", "U+01BC", "U+01F7", "U+01C4", "U+01C4", "U+01C7", "U+01C7",
      "U+01CA", "U+01CA", "U+01CD", "U+01CF", "U+01D1", "U+01D3", "U+01D5", "U+01D7",
      "U+01D9", "U+01DB", "U+018E", "U+01DE", "U+01E0", "U+01E2", "U+01E4", "U+01E6",
      "U+01E8", "U+01EA", "U+01EC", "U+01EE", "U+01F1", "U+01F1", "U+01F4", "U+01F8",
      "U+01FA", "U+01FC", "U+01FE", "U+0200", "U+0202", "U+0204", "U+0206", "U+0208",
      "U+020A", "U+020C", "U+020E", "U+0210", "U+0212", "U+0214", "U+0216", "U+0218",
      "U+021A", "U+021C", "U+021E", "U+0222", "U+0224", "U+0226", "U+0228", "U+022A",
      "U+022C", "U+022E", "U+0230", "U+0232", "U+023B", "U+2C7E", "U+2C7F", "U+0241",
      "U+0246", "U+0248", "U+024A", "U+024C", "U+024E", "U+2C6F", "U+2C6D", "U+2C70",
      "U+0181", "U+0186", "U+0189", "U+018A", "U+018F", "U+0190", "U+A7AB", "U+0193",
      "U+A7AC", "U+0194", "U+A78D", "U+A7AA", "U+0197", "U+0196", "U+A7AE", "U+2C62",
      "U+A7AD", "U+019C", "U+2C6E", "U+019D", "U+019F", "U+2C64", "U+01A6", "U+A7C5",
      "U+01A9", "U+A7B1", "U+01AE", "U+0244", "U+01B1", "U+01B2", "U+0245", "U+01B7",
      "U+A7B2", "U+A7B0", "U+0399", "U+0370", "U+0372", "U+0376", "U+03FD", "U+03FE",
      "U+03FF", "U+0386", "U+0388", "U+0389", "U+038A", "U+0391", "U+0392", "U+0393",
      "U+0394", "U+0395", "U+0396", "U+0397", "U+0398", "U+0399", "U+039A", "U+039B",
      "U+039C", "U+039D", "U+039E", "U+039F", "U+03A0", "U+03A1", "U+03A3", "U+03A3",
      "U+03A4", "U+03A5", "U+03A6", "U+03A7", "U+03A8", "U+03A9", "U+03AA", "U+03AB",
      "U+038C", "U+038E", "U+038F", "U+0392", "U+0398", "U+03A6", "U+03A0", "U+03CF",
      "U+03D8", "U+03DA", "U+03DC", "U+03DE", "U+03E0", "U+03E2", "U+03E4", "U+03E6",
      "U+03E8", "U+03EA", "U+03EC", "U+03EE", "U+039A", "U+03A1", "U+03F9", "U+037F",
      "U+0395", "U+03F7", "U+03FA", "U+0410", "U+0411", "U+0412", "U+0413", "U+0414",
      "U+0415", "U+0416", "U+0417", "U+0418", "U+0419", "U+041A", "U+041B", "U+041C",
      "U+041D", "U+041E", "U+041F", "U+0420", "U+0421", "U+0422", "U+0423", "U+0424",
      "U+0425", "U+0426", "U+0427", "U+0428", "U+0429", "U+042A", "U+042B", "U+042C",
      "U+042D", "U+042E", "U+042F", "U+0400", "U+0401", "U+0402", "U+0403", "U+0404",
      "U+0405", "U+0406", "U+0407", "U+0408", "U+0409", "U+040A", "U+040B", "U+040C",
      "U+040D", "U+040E", "U+040F", "U+0460", "U+0462", "U+0464", "U+0466", "U+0468",
      "U+046A", "U+046C", "U+046E", "U+0470", "U+0472", "U+0474", "U+0476", "U+0478",
      "U+047A", "U+047C", "U+047E", "U+0480", "U+048A", "U+048C", "U+048E", "U+0490",
      "U+0492", "U+0494", "U+0496", "U+0498", "U+049A", "U+049C", "U+049E", "U+04A0",
      "U+04A2", "U+04A4", "U+04A6", "U+04A8", "U+04AA", "U+04AC", "U+04AE", "U+04B0",
      "U+04B2", "U+04B4", "U+04B6", "U+04B8", "U+04BA", "U+04BC", "U+04BE", "U+04C1",
      "U+04C3", "U+04C5", "U+04C7", "U+04C9", "U+04CB", "U+04CD", "U+04C0", "U+04D0",
      "U+04D2", "U+04D4", "U+04D6", "U+04D8", "U+04DA", "U+04DC", "U+04DE", "U+04E0",
      "U+04E2", "U+04E4", "U+04E6", "U+04E8", "U+04EA", "U+04EC", "U+04EE", "U+04F0",
      "U+04F2", "U+04F4", "U+04F6", "U+04F8", "U+04FA", "U+04FC", "U+04FE", "U+0500",
      "U+0502", "U+0504", "U+0506", "U+0508", "U+050A", "U+050C", "U+050E", "U+0510",
      "U+0512", "U+0514", "U+0516", "U+0518", "U+051A", "U+051C", "U+051E", "U+0520",
      "U+0522", "U+0524", "U+0526", "U+0528", "U+052A", "U+052C", "U+052E", "U+0531",
      "U+0532", "U+0533", "U+0534", "U+0535", "U+0536", "U+0537", "U+0538", "U+0539",
      "U+053A", "U+053B", "U+053C", "U+053D", "U+053E", "U+053F", "U+0540", "U+0541",
      "U+0542", "U+0543", "U+0544", "U+0545", "U+0546", "U+0547", "U+0548", "U+0549",
      "U+054A", "U+054B", "U+054C", "U+054D", "U+054E", "U+054F", "U+0550", "U+0551",
      "U+0552", "U+0553", "U+0554", "U+0555", "U+0556", "U+1C90", "U+1C91", "U+1C92",
      "U+1C93", "U+1C94", "U+1C95", "U+1C96", "U+1C97", "U+1C98", "U+1C99", "U+1C9A",
      "U+1C9B", "U+1C9C", "U+1C9D", "U+1C9E", "U+1C9F", "U+1CA0", "U+1CA1", "U+1CA2",
      "U+1CA3", "U+1CA4", "U+1CA5", "U+1CA6", "U+1CA7", "U+1CA8", "U+1CA9", "U+1CAA",
      "U+1CAB", "U+1CAC", "U+1CAD", "U+1CAE", "U+1CAF", "U+1CB0", "U+1CB1", "U+1CB2",
      "U+1CB3", "U+1CB4", "U+1CB5", "U+1CB6", "U+1CB7", "U+1CB8", "U+1CB9", "U+1CBA",
      "U+1CBD", "U+1CBE", "U+1CBF", "U+13F0", "U+13F1", "U+13F2", "U+13F3", "U+13F4",
      "U+13F5", "U+0412", "U+0414", "U+041E", "U+0421", "U+0422", "U+0422", "U+042A",
      "U+0462", "U+A64A", "U+A77D", "U+2C63", "U+A7C6", "U+1E00", "U+1E02", "U+1E04",
      "U+1E06", "U+1E08", "U+1E0A", "U+1E0C", "U+1E0E", "U+1E10", "U+1E12", "U+1E14",
      "U+1E16", "U+1E18", "U+1E1A", "U+1E1C", "U+1E1E", "U+1E20", "U+1E22", "U+1E24",
      "U+1E26", "U+1E28", "U+1E2A", "U+1E2C", "U+1E2E", "U+1E30", "U+1E32", "U+1E34",
      "U+1E36", "U+1E38", "U+1E3A", "U+1E3C", "U+1E3E", "U+1E40", "U+1E42", "U+1E44",
      "U+1E46", "U+1E48", "U+1E4A", "U+1E4C", "U+1E4E", "U+1E50", "U+1E52", "U+1E54",
      "U+1E56", "U+1E58", "U+1E5A", "U+1E5C", "U+1E5E", "U+1E60", "U+1E62", "U+1E64",
      "U+1E66", "U+1E68", "U+1E6A", "U+1E6C", "U+1E6E", "U+1E70", "U+1E72", "U+1E74",
      "U+1E76", "U+1E78", "U+1E7A", "U+1E7C", "U+1E7E", "U+1E80", "U+1E82", "U+1E84",
      "U+1E86", "U+1E88", "U+1E8A", "U+1E8C", "U+1E8E", "U+1E90", "U+1E92", "U+1E94",
      "U+1E60", "U+1EA0", "U+1EA2", "U+1EA4", "U+1EA6", "U+1EA8", "U+1EAA", "U+1EAC",
      "U+1EAE", "U+1EB0", "U+1EB2", "U+1EB4", "U+1EB6", "U+1EB8", "U+1EBA", "U+1EBC",
      "U+1EBE", "U+1EC0", "U+1EC2", "U+1EC4", "U+1EC6", "U+1EC8", "U+1ECA", "U+1ECC",
      "U+1ECE", "U+1ED0", "U+1ED2", "U+1ED4", "U+1ED6", "U+1ED8", "U+1EDA", "U+1EDC",
      "U+1EDE", "U+1EE0", "U+1EE2", "U+1EE4", "U+1EE6", "U+1EE8", "U+1EEA", "U+1EEC",
      "U+1EEE", "U+1EF0", "U+1EF2", "U+1EF4", "U+1EF6", "U+1EF8", "U+1EFA", "U+1EFC",
      "U+1EFE", "U+1F08", "U+1F09", "U+1F0A", "U+1F0B", "U+1F0C", "U+1F0D", "U+1F0E",
      "U+1F0F", "U+1F18", "U+1F19", "U+1F1A", "U+1F1B", "U+1F1C", "U+1F1D", "U+1F28",
      "U+1F29", "U+1F2A", "U+1F2B", "U+1F2C", "U+1F2D", "U+1F2E", "U+1F2F", "U+1F38",
      "U+1F39", "U+1F3A", "U+1F3B", "U+1F3C", "U+1F3D", "U+1F3E", "U+1F3F", "U+1F48",
      "U+1F49", "U+1F4A", "U+1F4B", "U+1F4C", "U+1F4D", "U+1F59", "U+1F5B", "U+1F5D",
      "U+1F5F", "U+1F68", "U+1F69", "U+1F6A", "U+1F6B", "U+1F6C", "U+1F6D", "U+1F6E",
      "U+1F6F", "U+1FBA", "U+1FBB", "U+1FC8", "U+1FC9", "U+1FCA", "U+1FCB", "U+1FDA",
      "U+1FDB", "U+1FF8", "U+1FF9", "U+1FEA", "U+1FEB", "U+1FFA", "U+1FFB", "U+1FB8",
      "U+1FB9", "U+0399", "U+1FD8", "U+1FD9", "U+1FE8", "U+1FE9", "U+1FEC", "U+2132",
      "U+2160", "U+2161", "U+2162", "U+2163", "U+2164", "U+2165", "U+2166", "U+2167",
      "U+2168", "U+2169", "U+216A", "U+216B", "U+216C", "U+216D", "U+216E", "U+216F",
      "U+2183", "U+24B6", "U+24B7", "U+24B8", "U+24B9", "U+24BA", "U+24BB", "U+24BC",
      "U+24BD", "U+24BE", "U+24BF", "U+24C0", "U+24C1", "U+24C2", "U+24C3", "U+24C4",
      "U+24C5", "U+24C6", "U+24C7", "U+24C8", "U+24C9", "U+24CA", "U+24CB", "U+24CC",
      "U+24CD", "U+24CE", "U+24CF", "U+2C00", "U+2C01", "U+2C02", "U+2C03", "U+2C04",
      "U+2C05", "U+2C06", "U+2C07", "U+2C08", "U+2C09", "U+2C0A", "U+2C0B", "U+2C0C",
      "U+2C0D", "U+2C0E", "U+2C0F", "U+2C10", "U+2C11", "U+2C12", "U+2C13", "U+2C14",
      "U+2C15", "U+2C16", "U+2C17", "U+2C18", "U+2C19", "U+2C1A", "U+2C1B", "U+2C1C",
      "U+2C1D", "U+2C1E", "U+2C1F", "U+2C20", "U+2C21", "U+2C22", "U+2C23", "U+2C24",
      "U+2C25", "U+2C26", "U+2C27", "U+2C28", "U+2C29", "U+2C2A", "U+2C2B", "U+2C2C",
      "U+2C2D", "U+2C2E", "U+2C2F", "U+2C60", "U+023A", "U+023E", "U+2C67", "U+2C69",
      "U+2C6B", "U+2C72", "U+2C75", "U+2C80", "U+2C82", "U+2C84", "U+2C86", "U+2C88",
      "U+2C8A", "U+2C8C", "U+2C8E", "U+2C90", "U+2C92", "U+2C94", "U+2C96", "U+2C98",
      "U+2C9A", "U+2C9C", "U+2C9E", "U+2CA0", "U+2CA2", "U+2CA4", "U+2CA6", "U+2CA8",
      "U+2CAA", "U+2CAC", "U+2CAE", "U+2CB0", "U+2CB2", "U+2CB4", "U+2CB6", "U+2CB8",
      "U+2CBA", "U+2CBC", "U+2CBE", "U+2CC0", "U+2CC2", "U+2CC4", "U+2CC6", "U+2CC8",
      "U+2CCA", "U+2CCC", "U+2CCE", "U+2CD0", "U+2CD2", "U+2CD4", "U+2CD6", "U+2CD8",
      "U+2CDA", "U+2CDC", "U+2CDE", "U+2CE0", "U+2CE2", "U+2CEB", "U+2CED", "U+2CF2",
      "U+10A0", "U+10A1", "U+10A2", "U+10A3", "U+10A4", "U+10A5", "U+10A6", "U+10A7",
      "U+10A8", "U+10A9", "U+10AA", "U+10AB", "U+10AC", "U+10AD", "U+10AE", "U+10AF",
      "U+10B0", "U+10B1", "U+10B2", "U+10B3", "U+10B4", "U+10B5", "U+10B6", "U+10B7",
      "U+10B8", "U+10B9", "U+10BA", "U+10BB", "U+10BC", "U+10BD", "U+10BE", "U+10BF",
      "U+10C0", "U+10C1", "U+10C2", "U+10C3", "U+10C4", "U+10C5", "U+10C7", "U+10CD",
      "U+A640", "U+A642", "U+A644", "U+A646", "U+A648", "U+A64A", "U+A64C", "U+A64E",
      "U+A650", "U+A652", "U+A654", "U+A656", "U+A658", "U+A65A", "U+A65C", "U+A65E",
      "U+A660", "U+A662", "U+A664", "U+A666", "U+A668", "U+A66A", "U+A66C", "U+A680",
      "U+A682", "U+A684", "U+A686", "U+A688", "U+A68A", "U+A68C", "U+A68E", "U+A690",
      "U+A692", "U+A694", "U+A696", "U+A698", "U+A69A", "U+A722", "U+A724", "U+A726",
      "U+A728", "U+A72A", "U+A72C", "U+A72E", "U+A732", "U+A734", "U+A736", "U+A738",
      "U+A73A", "U+A73C", "U+A73E", "U+A740", "U+A742", "U+A744", "U+A746", "U+A748",
      "U+A74A", "U+A74C", "U+A74E", "U+A750", "U+A752", "U+A754", "U+A756", "U+A758",
      "U+A75A", "U+A75C", "U+A75E", "U+A760", "U+A762", "U+A764", "U+A766", "U+A768",
      "U+A76A", "U+A76C", "U+A76E", "U+A779", "U+A77B", "U+A77E", "U+A780", "U+A782",
      "U+A784", "U+A786", "U+A78B", "U+A790", "U+A792", "U+A7C4", "U+A796", "U+A798",
      "U+A79A", "U+A79C", "U+A79E", "U+A7A0", "U+A7A2", "U+A7A4", "U+A7A6", "U+A7A8",
      "U+A7B4", "U+A7B6", "U+A7B8", "U+A7BA", "U+A7BC", "U+A7BE", "U+A7C0", "U+A7C2",
      "U+A7C7", "U+A7C9", "U+A7D0", "U+A7D6", "U+A7D8", "U+A7F5", "U+A7B3", "U+13A0",
      "U+13A1", "U+13A2", "U+13A3", "U+13A4", "U+13A5", "U+13A6", "U+13A7", "U+13A8",
      "U+13A9", "U+13AA", "U+13AB", "U+13AC", "U+13AD", "U+13AE", "U+13AF", "U+13B0",
      "U+13B1", "U+13B2", "U+13B3", "U+13B4", "U+13B5", "U+13B6", "U+13B7", "U+13B8",
      "U+13B9", "U+13BA", "U+13BB", "U+13BC", "U+13BD", "U+13BE", "U+13BF", "U+13C0",
      "U+13C1", "U+13C2", "U+13C3", "U+13C4", "U+13C5", "U+13C6", "U+13C7", "U+13C8",
      "U+13C9", "U+13CA", "U+13CB", "U+13CC", "U+13CD", "U+13CE", "U+13CF", "U+13D0",
      "U+13D1", "U+13D2", "U+13D3", "U+13D4", "U+13D5", "U+13D6", "U+13D7", "U+13D8",
      "U+13D9", "U+13DA", "U+13DB", "U+13DC", "U+13DD", "U+13DE", "U+13DF", "U+13E0",
      "U+13E1", "U+13E2", "U+13E3", "U+13E4", "U+13E5", "U+13E6", "U+13E7", "U+13E8",
      "U+13E9", "U+13EA", "U+13EB", "U+13EC", "U+13ED", "U+13EE", "U+13EF", "U+FF21",
      "U+FF22", "U+FF23", "U+FF24", "U+FF25", "U+FF26", "U+FF27", "U+FF28", "U+FF29",
      "U+FF2A", "U+FF2B", "U+FF2C", "U+FF2D", "U+FF2E", "U+FF2F", "U+FF30", "U+FF31",
      "U+FF32", "U+FF33", "U+FF34", "U+FF35", "U+FF36", "U+FF37", "U+FF38", "U+FF39",
      "U+FF3A", "U+10400", "U+10401", "U+10402", "U+10403", "U+10404", "U+10405", "U+10406",
      "U+10407", "U+10408", "U+10409", "U+1040A", "U+1040B", "U+1040C", "U+1040D", "U+1040E",
      "U+1040F", "U+10410", "U+10411", "U+10412", "U+10413", "U+10414", "U+10415", "U+10416",
      "U+10417", "U+10418", "U+10419", "U+1041A", "U+1041B", "U+1041C", "U+1041D", "U+1041E",
      "U+1041F", "U+10420", "U+10421", "U+10422", "U+10423", "U+10424", "U+10425", "U+10426",
      "U+10427", "U+104B0", "U+104B1", "U+104B2", "U+104B3", "U+104B4", "U+104B5", "U+104B6",
      "U+104B7", "U+104B8", "U+104B9", "U+104BA", "U+104BB", "U+104BC", "U+104BD", "U+104BE",
      "U+104BF", "U+104C0", "U+104C1", "U+104C2", "U+104C3", "U+104C4", "U+104C5", "U+104C6",
      "U+104C7", "U+104C8", "U+104C9", "U+104CA", "U+104CB", "U+104CC", "U+104CD", "U+104CE",
      "U+104CF", "U+104D0", "U+104D1", "U+104D2", "U+104D3", "U+10570", "U+10571", "U+10572",
      "U+10573", "U+10574", "U+10575", "U+10576", "U+10577", "U+10578", "U+10579", "U+1057A",
      "U+1057C", "U+1057D", "U+1057E", "U+1057F", "U+10580", "U+10581", "U+10582", "U+10583",
      "U+10584", "U+10585", "U+10586", "U+10587", "U+10588", "U+10589", "U+1058A", "U+1058C",
      "U+1058D", "U+1058E", "U+1058F", "U+10590", "U+10591", "U+10592", "U+10594", "U+10595",
      "U+10C80", "U+10C81", "U+10C82", "U+10C83", "U+10C84", "U+10C85", "U+10C86", "U+10C87",
      "U+10C88", "U+10C89", "U+10C8A", "U+10C8B", "U+10C8C", "U+10C8D", "U+10C8E", "U+10C8F",
      "U+10C90", "U+10C91", "U+10C92", "U+10C93", "U+10C94", "U+10C95", "U+10C96", "U+10C97",
      "U+10C98", "U+10C99", "U+10C9A", "U+10C9B", "U+10C9C", "U+10C9D", "U+10C9E", "U+10C9F",
      "U+10CA0", "U+10CA1", "U+10CA2", "U+10CA3", "U+10CA4", "U+10CA5", "U+10CA6", "U+10CA7",
      "U+10CA8", "U+10CA9", "U+10CAA", "U+10CAB", "U+10CAC", "U+10CAD", "U+10CAE", "U+10CAF",
      "U+10CB0", "U+10CB1", "U+10CB2", "U+118A0", "U+118A1", "U+118A2", "U+118A3", "U+118A4",
      "U+118A5", "U+118A6", "U+118A7", "U+118A8", "U+118A9", "U+118AA", "U+118AB", "U+118AC",
      "U+118AD", "U+118AE", "U+118AF", "U+118B0", "U+118B1", "U+118B2", "U+118B3", "U+118B4",
      "U+118B5", "U+118B6", "U+118B7", "U+118B8", "U+118B9", "U+118BA", "U+118BB", "U+118BC",
      "U+118BD", "U+118BE", "U+118BF", "U+16E40", "U+16E41", "U+16E42", "U+16E43", "U+16E44",
      "U+16E45", "U+16E46", "U+16E47", "U+16E48", "U+16E49", "U+16E4A", "U+16E4B", "U+16E4C",
      "U+16E4D", "U+16E4E", "U+16E4F", "U+16E50", "U+16E51", "U+16E52", "U+16E53", "U+16E54",
      "U+16E55", "U+16E56", "U+16E57", "U+16E58", "U+16E59", "U+16E5A", "U+16E5B", "U+16E5C",
      "U+16E5D", "U+16E5E", "U+16E5F", "U+1E900", "U+1E901", "U+1E902", "U+1E903", "U+1E904",
      "U+1E905", "U+1E906", "U+1E907", "U+1E908", "U+1E909", "U+1E90A", "U+1E90B", "U+1E90C",
      "U+1E90D", "U+1E90E", "U+1E90F", "U+1E910", "U+1E911", "U+1E912", "U+1E913", "U+1E914",
      "U+1E915", "U+1E916", "U+1E917", "U+1E918", "U+1E919", "U+1E91A", "U+1E91B", "U+1E91C",
      "U+1E91D", "U+1E91E", "U+1E91F", "U+1E920", "U+1E921">>

\* the characters that str.upper() turns into more than one character
UpperSpecialFrom ==
    <<"U+00DF", "U+0149", "U+01F0", "U+0390", "U+03B0", "U+0587", "U+1E96", "U+1E97",
      "U+1E98", "U+1E99", "U+1E9A", "U+1F50", "U+1F52", "U+1F54", "U+1F56", "U+1F80",
      "U+1F81", "U+1F82", "U+1F83", "U+1F84", "U+1F85", "U+1F86", "U+1F87", "U+1F88",
      "U+1F89", "U+1F8A", "U+1F8B", "U+1F8C", "U+1F8D", "U+1F8E", "U+1F8F", "U+1F90",
      "U+1F91", "U+1F92", "U+1F93", "U+1F94", "U+1F95", "U+1F96", "U+1F97", "U+1F98",
      "U+1F99", "U+1F9A", "U+1F9B", "U+1F9C", "U+1F9D", "U+1F9E", "U+1F9F", "U+1FA0",
      "U+1FA1", "U+1FA2", "U+1FA3", "U+1FA4", "U+1FA5", "U+1FA6", "U+1FA7", "U+1FA8",
      "U+1FA9", "U+1FAA", "U+1FAB", "U+1FAC", "U+1FAD", "U+1FAE", "U+1FAF", "U+1FB2",
      "U+1FB3", "U+1FB4", "U+1FB6", "U+1FB7", "U+1FBC", "U+1FC2", "U+1FC3", "U+1FC4",
      "U+1FC6", "U+1FC7", "U+1FCC", "U+1FD2", "U+1FD3", "U+1FD6", "U+1FD7", "U+1FE2",
      "U+1FE3", "U+1FE4", "U+1FE6", "U+1FE7", "U+1FF2", "U+1FF3", "U+1FF4", "U+1FF6",
      "U+1FF7", "U+1FFC", "U+FB00", "U+FB01", "U+FB02", "U+FB03", "U+FB04", "U+FB05",
      "U+FB06", "U+FB13", "U+FB14", "U+FB15", "U+FB16", "U+FB17">>

\* what str.upper() turns them into, place by place
UpperSpecialTo ==
    <<<<"S", "S">>, <<"U+02BC", "N">>, <<"J", "U+030C">>, <<"U+0399", "U+0308", "U+0301">>,
      <<"U+03A5", "U+0308", "U+0301">>, <<"U+0535", "U+0552">>, <<"H", "U+0331">>, <<"T", "U+0308">>,
      <<"W", "U+030A">>, <<"Y", "U+030A">>, <<"A", "U+02BE">>, <<"U+03A5", "U+0313">>,
      <<"U+03A5", "U+0313", "U+0300">>, <<"U+03A5", "U+0313", "U+0301">>, <<"U+03A5", "U+0313", "U+0342">>, <<"U+1F08", "U+0399">>,
      <<"U+1F09", "U+0399">>, <<"U+1F0A", "U+0399">>, <<"U+1F0B", "U+0399">>, <<"U+1F0C", "U+0399">>,
      <<"U+1F0D", "U+0399">>, <<"U+1F0E", "U+0399">>, <<"U+1F0F", "U+0399">>, <<"U+1F08", "U+0399">>,
      <<"U+1F09", "U+0399">>, <<"U+1F0A", "U+0399">>, <<"U+1F0B", "U+0399">>, <<"U+1F0C", "U+0399">>,
      <<"U+1F0D", "U+0399">>, <<"U+1F0E", "U+0399">>, <<"U+1F0F", "U+0399">>, <<"U+1F28", "U+0399">>,
      <<"U+1F29", "U+0399">>, <<"U+1F2A", "U+0399">>, <<"U+1F2B", "U+0399">>, <<"U+1F2C", "U+0399">>,
      <<"U+1F2D", "U+0399">>, <<"U+1F2E", "U+0399">>, <<"U+1F2F", "U+0399">>, <<"U+1F28", "U+0399">>,
      <<"U+1F29", "U+0399">>, <<"U+1F2A", "U+0399">>, <<"U+1F2B", "U+0399">>, <<"U+1F2C", "U+0399">>,
      <<"U+1F2D", "U+0399">>, <<"U+1F2E", "U+0399">>, <<"U+1F2F", "U+0399">>, <<"U+1F68", "U+0399">>,
      <<"U+1F69", "U+0399">>, <<"U+1F6A", "U+0399">>, <<"U+1F6B", "U+0399">>, <<"U+1F6C", "U+0399">>,
      <<"U+1F6D", "U+0399">>, <<"U+1F6E", "U+0399">>, <<"U+1F6F", "U+0399">>, <<"U+1F68", "U+0399">>,
      <<"U+1F69", "U+0399">>, <<"U+1F6A", "U+0399">>, <<"U+1F6B", "U+0399">>, <<"U+1F6C", "U+0399">>,
      <<"U+1F6D", "U+0399">>, <<"U+1F6E", "U+0399">>, <<"U+1F6F", "U+0399">>, <<"U+1FBA", "U+0399">>,
      <<"U+0391", "U+0399">>, <<"U+0386", "U+0399">>, <<"U+0391", "U+0342">>, <<"U+0391", "U+0342", "U+0399">>,
      <<"U+0391", "U+0399">>, <<"U+1FCA", "U+0399">>, <<"U+0397", "U+0399">>, <<"U+0389", "U+0399">>,
      <<"U+0397", "U+0342">>, <<"U+0397", "U+0342", "U+0399">>, <<"U+0397", "U+0399">>, <<"U+0399", "U+0308", "U+0300">>,
      <<"U+0399", "U+0308", "U+0301">>, <<"U+0399", "U+0342">>, <<"U+0399", "U+0308", "U+0342">>, <<"U+03A5", "U+0308", "U+0300">>,
      <<"U+03A5", "U+0308", "U+0301">>, <<"U+03A1", "U+0313">>, <<"U+03A5", "U+0342">>, <<"U+03A5", "U+0308", "U+0342">>,
      <<"U+1FFA", "U+0399">>, <<"U+03A9", "U+0399">>, <<"U+038F", "U+0399">>, <<"U+03A9", "U+0342">>,
      <<"U+03A9", "U+0342", "U+0399">>, <<"U+03A9", "U+0399">>, <<"F", "F">>, <<"F", "I">>,
      <<"F", "L">>, <<"F", "F", "I">>, <<"F", "F", "L">>, <<"S", "T">>,
      <<"S", "T">>, <<"U+0544", "U+0546">>, <<"U+0544", "U+0535">>, <<"U+0544", "U+053B">>,
      <<"U+054E", "U+0546">>, <<"U+0544", "U+053D">>>>

\* str.upper() on the characters it turns into one other character
UpperMap ==
    LET from == LowerLetters \o UpperFrom
        to == UpperLetters \o UpperTo
    IN  [c \in {from[i] : i \in DOMAIN from} |->
            to[CHOOSE i \in DOMAIN from : from[i] = c]]

\* str.upper() on the characters it turns into more than one character: a letter and
\* a combining mark, or the letters of a ligature
UpperSpecial ==
    [c \in {UpperSpecialFrom[i] : i \in DOMAIN UpperSpecialFrom} |->
        UpperSpecialTo[CHOOSE i \in DOMAIN UpperSpecialFrom : UpperSpecialFrom[i] = c]]

\* str.upper() on one character; a character without an upper-case form is kept
UpperChar(c) ==
    IF c \in DOMAIN UpperMap THEN <<UpperMap[c]>>
    ELSE IF c \in DOMAIN UpperSpecial THEN UpperSpecial[c]
    ELSE <<c>>

RECURSIVE Upper(_)
\* str.upper()
Upper(s) == IF s = <<>> THEN <<>> ELSE UpperChar(Head(s)) \o Upper(Tail(s))

\* Python's  k in s  on strings
Contains(s, k) ==
    \E i \in 0..(Len(s) - Len(k)) : \A j \in 1..Len(k) : s[i + j] = k[j]

\* the characters re.IGNORECASE takes for another character of lower code point,
\* in the order of their code points
IgnoreCaseFrom ==
    <<"a", "b", "c", "d", "e", "f", "g", "h",
      "i", "j", "k", "l", "m", "n", "o", "p",
      "q", "r", "s", "t", "u", "v", "w", "x",
      "y", "z", "U+00E0", "U+00E1", "U+00E2", "U+00E3", "U+00E4", "U+00E5",
      "U+00E6", "U+00E7", "U+00E8", "U+00E9", "U+00EA", "U+00EB", "U+00EC", "U+00ED",
      "U+00EE", "U+00EF", "U+00F0", "U+00F1", "U+00F2", "U+00F3", "U+00F4", "U+00F5",
      "U+00F6", "U+00F8", "U+00F9", "U+00FA", "U+00FB", "U+00FC", "U+00FD", "U+00FE",
      "U+0101", "U+0103", "U+0105", "U+0107", "U+0109", "U+010B", "U+010D", "U+010F",
      "U+0111", "U+0113", "U+0115", "U+0117", "U+0119", "U+011B", "U+011D", "U+011F",
      "U+0121", "U+0123", "U+0125", "U+0127", "U+0129", "U+012B", "U+012D", "U+012F",
      "U+0130", "U+0131", "U+0133", "U+0135", "U+0137", "U+013A", "U+013C", "U+013E",
      "U+0140", "U+0142", "U+0144", "U+0146", "U+0148", "U+014B", "U+014D", "U+014F",
      "U+0151", "U+0153", "U+0155", "U+0157", "U+0159", "U+015B", "U+015D", "U+015F",
      "U+0161", "U+0163", "U+0165", "U+0167", "U+0169", "U+016B", "U+016D", "U+016F",
      "U+0171", "U+0173", "U+0175", "U+0177", "U+0178", "U+017A", "U+017C", "U+017E",
      "U+017F", "U+0183", "U+0185", "U+0188", "U+018C", "U+0192", "U+0199", "U+01A1",
      "U+01A3", "U+01A5", "U+01A8", "U+01AD", "U+01B0", "U+01B4", "U+01B6", "U+01B9",
      "U+01BD", "U+01C5", "U+01C6", "U+01C8", "U+01C9", "U+01CB", "U+01CC", "U+01CE",
      "U+01D0", "U+01D2", "U+01D4", "U+01D6", "U+01D8", "U+01DA", "U+01DC", "U+01DD",
      "U+01DF", "U+01E1", "U+01E3", "U+01E5", "U+01E7", "U+01E9", "U+01EB", "U+01ED",
      "U+01EF", "U+01F2", "U+01F3", "U+01F5", "U+01F6", "U+01F7", "U+01F9", "U+01FB",
      "U+01FD", "U+01FF", "U+0201", "U+0203", "U+0205", "U+0207", "U+0209", "U+020B",
      "U+020D", "U+020F", "U+0211", "U+0213", "U+0215", "U+0217", "U+0219", "U+021B",
      "U+021D", "U+021F", "U+0220", "U+0223", "U+0225", "U+0227", "U+0229", "U+022B",
      "U+022D", "U+022F", "U+0231", "U+0233", "U+023C", "U+023D", "U+0242", "U+0243",
      "U+0247", "U+0249", "U+024B", "U+024D", "U+024F", "U+0253", "U+0254", "U+0256",
      "U+0257", "U+0259", "U+025B", "U+0260", "U+0263", "U+0268", "U+0269", "U+026F",
      "U+0272", "U+0275", "U+0280", "U+0283", "U+0288", "U+0289", "U+028A", "U+028B",
      "U+028C", "U+0292", "U+0371", "U+0373", "U+0377", "U+0399", "U+039C", "U+03AC",
      "U+03AD", "U+03AE", "U+03AF", "U+03B1", "U+03B2", "U+03B3", "U+03B4", "U+03B5",
      "U+03B6", "U+03B7", "U+03B8", "U+03B9", "U+03BA", "U+03BB", "U+03BC", "U+03BD",
      "U+03BE", "U+03BF", "U+03C0", "U+03C1", "U+03C2", "U+03C3", "U+03C4", "U+03C5",
      "U+03C6", "U+03C7", "U+03C8", "U+03C9", "U+03CA", "U+03CB", "U+03CC", "U+03CD",
      "U+03CE", "U+03D0", "U+03D1", "U+03D5", "U+03D6", "U+03D7", "U+03D9", "U+03DB",
      "U+03DD", "U+03DF", "U+03E1", "U+03E3", "U+03E5", "U+03E7", "U+03E9", "U+03EB",
      "U+03ED", "U+03EF", "U+03F0", "U+03F1", "U+03F3", "U+03F4", "U+03F5", "U+03F8",
      "U+03F9", "U+03FB", "U+03FD", "U+03FE", "U+03FF", "U+0430", "U+0431", "U+0432",
      "U+0433", "U+0434", "U+0435", "U+0436", "U+0437", "U+0438", "U+0439", "U+043A",
      "U+043B", "U+043C", "U+043D", "U+043E", "U+043F", "U+0440", "U+0441", "U+0442",
      "U+0443", "U+0444", "U+0445", "U+0446", "U+0447", "U+0448", "U+0449", "U+044A",
      "U+044B", "U+044C", "U+044D", "U+044E", "U+044F", "U+0450", "U+0451", "U+0452",
      "U+0453", "U+0454", "U+0455", "U+0456", "U+0457", "U+0458", "U+0459", "U+045A",
      "U+045B", "U+045C", "U+045D", "U+045E", "U+045F", "U+0461", "U+0463", "U+0465",
      "U+0467", "U+0469", "U+046B", "U+046D", "U+046F", "U+0471", "U+0473", "U+0475",
      "U+0477", "U+0479", "U+047B", "U+047D", "U+047F", "U+0481", "U+048B", "U+048D",
      "U+048F", "U+0491", "U+0493", "U+0495", "U+0497", "U+0499", "U+049B", "U+049D",
      "U+049F", "U+04A1", "U+04A3", "U+04A5", "U+04A7", "U+04A9", "U+04AB", "U+04AD",
      "U+04AF", "U+04B1", "U+04B3", "U+04B5", "U+04B7", "U+04B9", "U+04BB", "U+04BD",
      "U+04BF", "U+04C2", "U+04C4", "U+04C6", "U+04C8", "U+04CA", "U+04CC", "U+04CE",
      "U+04CF", "U+04D1", "U+04D3", "U+04D5", "U+04D7", "U+04D9", "U+04DB", "U+04DD",
      "U+04DF", "U+04E1", "U+04E3", "U+04E5", "U+04E7", "U+04E9", "U+04EB", "U+04ED",
      "U+04EF", "U+04F1", "U+04F3", "U+04F5", "U+04F7", "U+04F9", "U+04FB", "U+04FD",
      "U+04FF", "U+0501", "U+0503", "U+0505", "U+0507", "U+0509", "U+050B", "U+050D",
      "U+050F", "U+0511", "U+0513", "U+0515", "U+0517", "U+0519", "U+051B", "U+051D",
      "U+051F", "U+0521", "U+0523", "U+0525", "U+0527", "U+0529", "U+052B", "U+052D",
      "U+052F", "U+0561", "U+0562", "U+0563", "U+0564", "U+0565", "U+0566", "U+0567",
      "U+0568", "U+0569", "U+056A", "U+056B", "U+056C", "U+056D", "U+056E", "U+056F",
      "U+0570", "U+0571", "U+0572", "U+0573", "U+0574", "U+0575", "U+0576", "U+0577",
      "U+0578", "U+0579", "U+057A", "U+057B", "U+057C", "U+057D", "U+057E", "U+057F",
      "U+0580", "U+0581", "U+0582", "U+0583", "U+0584", "U+0585", "U+0586", "U+13F8",
      "U+13F9", "U+13FA", "U+13FB", "U+13FC", "U+13FD", "U+1C80", "U+1C81", "U+1C82",
      "U+1C83", "U+1C84", "U+1C85", "U+1C86", "U+1C87", "U+1C90", "U+1C91", "U+1C92",
      "U+1C93", "U+1C94", "U+1C95", "U+1C96", "U+1C97", "U+1C98", "U+1C99", "U+1C9A",
      "U+1C9B", "U+1C9C", "U+1C9D", "U+1C9E", "U+1C9F", "U+1CA0", "U+1CA1", "U+1CA2",
      "U+1CA3", "U+1CA4", "U+1CA5", "U+1CA6", "U+1CA7", "U+1CA8", "U+1CA9", "U+1CAA",
      "U+1CAB", "U+1CAC", "U+1CAD", "U+1CAE", "U+1CAF", "U+1CB0", "U+1CB1", "U+1CB2",
      "U+1CB3", "U+1CB4", "U+1CB5", "U+1CB6", "U+1CB7", "U+1CB8", "U+1CB9", "U+1CBA",
      "U+1CBD", "U+1CBE", "U+1CBF", "U+1E01", "U+1E03", "U+1E05", "U+1E07", "U+1E09",
      "U+1E0B", "U+1E0D", "U+1E0F", "U+1E11", "U+1E13", "U+1E15", "U+1E17", "U+1E19",
      "U+1E1B", "U+1E1D", "U+1E1F", "U+1E21", "U+1E23", "U+1E25", "U+1E27", "U+1E29",
      "U+1E2B", "U+1E2D", "U+1E2F", "U+1E31", "U+1E33", "U+1E35", "U+1E37", "U+1E39",
      "U+1E3B", "U+1E3D", "U+1E3F", "U+1E41", "U+1E43", "U+1E45", "U+1E47", "U+1E49",
      "U+1E4B", "U+1E4D", "U+1E4F", "U+1E51", "U+1E53", "U+1E55", "U+1E57", "U+1E59",
      "U+1E5B", "U+1E5D", "U+1E5F", "U+1E61", "U+1E63", "U+1E65", "U+1E67", "U+1E69",
      "U+1E6B", "U+1E6D", "U+1E6F", "U+1E71", "U+1E73", "U+1E75", "U+1E77", "U+1E79",
      "U+1E7B", "U+1E7D", "U+1E7F", "U+1E81", "U+1E83", "U+1E85", "U+1E87", "U+1E89",
      "U+1E8B", "U+1E8D", "U+1E8F", "U+1E91", "U+1E93", "U+1E95", "U+1E9B", "U+1E9E",
      "U+1EA1", "U+1EA3", "U+1EA5", "U+1EA7", "U+1EA9", "U+1EAB", "U+1EAD", "U+1EAF",
      "U+1EB1", "U+1EB3", "U+1EB5", "U+1EB7", "U+1EB9", "U+1EBB", "U+1EBD", "U+1EBF",
      "U+1EC1", "U+1EC3", "U+1EC5", "U+1EC7", "U+1EC9", "U+1ECB", "U+1ECD", "U+1ECF",
      "U+1ED1", "U+1ED3", "U+1ED5", "U+1ED7", "U+1ED9", "U+1EDB", "U+1EDD", "U+1EDF",
      "U+1EE1", "U+1EE3", "U+1EE5", "U+1EE7", "U+1EE9", "U+1EEB", "U+1EED", "U+1EEF",
      "U+1EF1", "U+1EF3", "U+1EF5", "U+1EF7", "U+1EF9", "U+1EFB", "U+1EFD", "U+1EFF",
      "U+1F08", "U+1F09", "U+1F0A", "U+1F0B", "U+1F0C", "U+1F0D", "U+1F0E", "U+1F0F",
      "U+1F18", "U+1F19", "U+1F1A", "U+1F1B", "U+1F1C", "U+1F1D", "U+1F28", "U+1F29",
      "U+1F2A", "U+1F2B", "U+1F2C", "U+1F2D", "U+1F2E", "U+1F2F", "U+1F38", "U+1F39",
      "U+1F3A", "U+1F3B", "U+1F3C", "U+1F3D", "U+1F3E", "U+1F3F", "U+1F48", "U+1F49",
      "U+1F4A", "U+1F4B", "U+1F4C", "U+1F4D", "U+1F59", "U+1F5B", "U+1F5D", "U+1F5F",
      "U+1F68", "U+1F69", "U+1F6A", "U+1F6B", "U+1F6C", "U+1F6D", "U+1F6E", "U+1F6F",
      "U+1F88", "U+1F89", "U+1F8A", "U+1F8B", "U+1F8C", "U+1F8D", "U+1F8E", "U+1F8F",
      "U+1F98", "U+1F99", "U+1F9A", "U+1F9B", "U+1F9C", "U+1F9D", "U+1F9E", "U+1F9F",
      "U+1FA8", "U+1FA9", "U+1FAA", "U+1FAB", "U+1FAC", "U+1FAD", "U+1FAE", "U+1FAF",
      "U+1FB8", "U+1FB9", "U+1FBA", "U+1FBB", "U+1FBC", "U+1FBE", "U+1FC8", "U+1FC9",
      "U+1FCA", "U+1FCB", "U+1FCC", "U+1FD3", "U+1FD8", "U+1FD9", "U+1FDA", "U+1FDB",
      "U+1FE3", "U+1FE8", "U+1FE9", "U+1FEA", "U+1FEB", "U+1FEC", "U+1FF8", "U+1FF9",
      "U+1FFA", "U+1FFB", "U+1FFC", "U+2126", "U+212A", "U+212B", "U+214E", "U+2170",
      "U+2171", "U+2172", "U+2173", "U+2174", "U+2175", "U+2176", "U+2177", "U+2178",
      "U+2179", "U+217A", "U+217B", "U+217C", "U+217D", "U+217E", "U+217F", "U+2184",
      "U+24D0", "U+24D1", "U+24D2", "U+24D3", "U+24D4", "U+24D5", "U+24D6", "U+24D7",
      "U+24D8", "U+24D9", "U+24DA", "U+24DB", "U+24DC", "U+24DD", "U+24DE", "U+24DF",
      "U+24E0", "U+24E1", "U+24E2", "U+24E3", "U+24E4", "U+24E5", "U+24E6", "U+24E7",
      "U+24E8", "U+24E9", "U+2C30", "U+2C31", "U+2C32", "U+2C33", "U+2C34", "U+2C35",
      "U+2C36", "U+2C37", "U+2C38", "U+2C39", "U+2C3A", "U+2C3B", "U+2C3C", "U+2C3D",
      "U+2C3E", "U+2C3F", "U+2C40", "U+2C41", "U+2C42", "U+2C43", "U+2C44", "U+2C45",
      "U+2C46", "U+2C47", "U+2C48", "U+2C49", "U+2C4A", "U+2C4B", "U+2C4C", "U+2C4D",
      "U+2C4E", "U+2C4F", "U+2C50", "U+2C51", "U+2C52", "U+2C53", "U+2C54", "U+2C55",
      "U+2C56", "U+2C57", "U+2C58", "U+2C59", "U+2C5A", "U+2C5B", "U+2C5C", "U+2C5D",
      "U+2C5E", "U+2C5F", "U+2C61", "U+2C62", "U+2C63", "U+2C64", "U+2C65", "U+2C66",
      "U+2C68", "U+2C6A", "U+2C6C", "U+2C6D", "U+2C6E", "U+2C6F", "U+2C70", "U+2C73",
      "U+2C76", "U+2C7E", "U+2C7F", "U+2C81", "U+2C83", "U+2C85", "U+2C87", "U+2C89",
      "U+2C8B", "U+2C8D", "U+2C8F", "U+2C91", "U+2C93", "U+2C95", "U+2C97", "U+2C99",
      "U+2C9B", "U+2C9D", "U+2C9F", "U+2CA1", "U+2CA3", "U+2CA5", "U+2CA7", "U+2CA9",
      "U+2CAB", "U+2CAD", "U+2CAF", "U+2CB1", "U+2CB3", "U+2CB5", "U+2CB7", "U+2CB9",
      "U+2CBB", "U+2CBD", "U+2CBF", "U+2CC1", "U+2CC3", "U+2CC5", "U+2CC7", "U+2CC9",
      "U+2CCB", "U+2CCD", "U+2CCF", "U+2CD1", "U+2CD3", "U+2CD5", "U+2CD7", "U+2CD9",
      "U+2CDB", "U+2CDD", "U+2CDF", "U+2CE1", "U+2CE3", "U+2CEC", "U+2CEE", "U+2CF3",
      "U+2D00", "U+2D01", "U+2D02", "U+2D03", "U+2D04", "U+2D05", "U+2D06", "U+2D07",
      "U+2D08", "U+2D09", "U+2D0A", "U+2D0B", "U+2D0C", "U+2D0D", "U+2D0E", "U+2D0F",
      "U+2D10", "U+2D11", "U+2D12", "U+2D13", "U+2D14", "U+2D15", "U+2D16", "U+2D17",
      "U+2D18", "U+2D19", "U+2D1A", "U+2D1B", "U+2D1C", "U+2D1D", "U+2D1E", "U+2D1F",
      "U+2D20", "U+2D21", "U+2D22", "U+2D23", "U+2D24", "U+2D25", "U+2D27", "U+2D2D",
      "U+A641", "U+A643", "U+A645", "U+A647", "U+A649", "U+A64A", "U+A64B", "U+A64D",
      "U+A64F", "U+A651", "U+A653", "U+A655", "U+A657", "U+A659", "U+A65B", "U+A65D",
      "U+A65F", "U+A661", "U+A663", "U+A665", "U+A667", "U+A669", "U+A66B", "U+A66D",
      "U+A681", "U+A683", "U+A685", "U+A687", "U+A689", "U+A68B", "U+A68D", "U+A68F",
      "U+A691", "U+A693", "U+A695", "U+A697", "U+A699", "U+A69B", "U+A723", "U+A725",
      "U+A727", "U+A729", "U+A72B", "U+A72D", "U+A72F", "U+A733", "U+A735", "U+A737",
      "U+A739", "U+A73B", "U+A73D", "U+A73F", "U+A741", "U+A743", "U+A745", "U+A747",
      "U+A749", "U+A74B", "U+A74D", "U+A74F", "U+A751", "U+A753", "U+A755", "U+A757",
      "U+A759", "U+A75B", "U+A75D", "U+A75F", "U+A761", "U+A763", "U+A765", "U+A767",
      "U+A769", "U+A76B", "U+A76D", "U+A76F", "U+A77A", "U+A77C", "U+A77D", "U+A77F",
      "U+A781", "U+A783", "U+A785", "U+A787", "U+A78C", "U+A78D", "U+A791", "U+A793",
      "U+A797", "U+A799", "U+A79B", "U+A79D", "U+A79F", "U+A7A1", "U+A7A3", "U+A7A5",
      "U+A7A7", "U+A7A9", "U+A7AA", "U+A7AB", "U+A7AC", "U+A7AD", "U+A7AE", "U+A7B0",
      "U+A7B1", "U+A7B2", "U+A7B5", "U+A7B7", "U+A7B9", "U+A7BB", "U+A7BD", "U+A7BF",
      "U+A7C1", "U+A7C3", "U+A7C4", "U+A7C5", "U+A7C6", "U+A7C8", "U+A7CA", "U+A7D1",
      "U+A7D7", "U+A7D9", "U+A7F6", "U+AB53", "U+AB70", "U+AB71", "U+AB72", "U+AB73",
      "U+AB74", "U+AB75", "U+AB76", "U+AB77", "U+AB78", "U+AB79", "U+AB7A", "U+AB7B",
      "U+AB7C", "U+AB7D", "U+AB7E", "U+AB7F", "U+AB80", "U+AB81", "U+AB82", "U+AB83",
      "U+AB84", "U+AB85", "U+AB86", "U+AB87", "U+AB88", "U+AB89", "U+AB8A", "U+AB8B",
      "U+AB8C", "U+AB8D", "U+AB8E", "U+AB8F", "U+AB90", "U+AB91", "U+AB92", "U+AB93",
      "U+AB94", "U+AB95", "U+AB96", "U+AB97", "U+AB98", "U+AB99", "U+AB9A", "U+AB9B",
      "U+AB9C", "U+AB9D", "U+AB9E", "U+AB9F", "U+ABA0", "U+ABA1", "U+ABA2", "U+ABA3",
      "U+ABA4", "U+ABA5", "U+ABA6", "U+ABA7", "U+ABA8", "U+ABA9", "U+ABAA", "U+ABAB",
      "U+ABAC", "U+ABAD", "U+ABAE", "U+ABAF", "U+ABB0", "U+ABB1", "U+ABB2", "U+ABB3",
      "U+ABB4", "U+ABB5", "U+ABB6", "U+ABB7", "U+ABB8", "U+ABB9", "U+ABBA", "U+ABBB",
      "U+ABBC", "U+ABBD", "U+ABBE", "U+ABBF", "U+FB06", "U+FF41", "U+FF42", "U+FF43",
      "U+FF44", "U+FF45", "U+FF46", "U+FF47", "U+FF48", "U+FF49", "U+FF4A", "U+FF4B",
      "U+FF4C", "U+FF4D", "U+FF4E", "U+FF4F", "U+FF50", "U+FF51", "U+FF52", "U+FF53",
      "U+FF54", "U+FF55", "U+FF56", "U+FF57", "U+FF58", "U+FF59", "U+FF5A", "U+10428",
      "U+10429", "U+1042A", "U+1042B", "U+1042C", "U+1042D", "U+1042E", "U+1042F", "U+10430",
      "U+10431", "U+10432", "U+10433", "U+10434", "U+10435", "U+10436", "U+10437", "U+10438",
      "U+10439", "U+1043A", "U+1043B", "U+1043C", "U+1043D", "U+1043E", "U+1043F", "U+10440",
      "U+10441", "U+10442", "U+10443", "U+10444", "U+10445", "U+10446", "U+10447", "U+10448",
      "U+10449", "U+1044A", "U+1044B", "U+1044C", "U+1044D", "U+1044E", "U+1044F", "U+104D8",
      "U+104D9", "U+104DA", "U+104DB", "U+104DC", "U+104DD", "U+104DE", "U+104DF", "U+104E0",
      "U+104E1", "U+104E2", "U+104E3", "U+104E4", "U+104E5", "U+104E6", "U+104E7", "U+104E8",
      "U+104E9", "U+104EA", "U+104EB", "U+104EC", "U+104ED", "U+104EE", "U+104EF", "U+104F0",
      "U+104F1", "U+104F2", "U+104F3", "U+104F4", "U+104F5", "U+104F6", "U+104F7", "U+104F8",
      "U+104F9", "U+104FA", "U+104FB", "U+10597", "U+10598", "U+10599", "U+1059A", "U+1059B",
      "U+1059C", "U+1059D", "U+1059E", "U+1059F", "U+105A0", "U+105A1", "U+105A3", "U+105A4",
      "U+105A5", "U+105A6", "U+105A7", "U+105A8", "U+105A9", "U+105AA", "U+105AB", "U+105AC",
      "U+105AD", "U+105AE", "U+105AF", "U+105B0", "U+105B1", "U+105B3", "U+105B4", "U+105B5",
      "U+105B6", "U+105B7", "U+105B8", "U+105B9", "U+105BB", "U+105BC", "U+10CC0", "U+10CC1",
      "U+10CC2", "U+10CC3", "U+10CC4", "U+10CC5", "U+10CC6", "U+10CC7", "U+10CC8", "U+10CC9",
      "U+10CCA", "U+10CCB", "U+10CCC", "U+10CCD", "U+10CCE", "U+10CCF", "U+10CD0", "U+10CD1",
      "U+10CD2", "U+10CD3", "U+10CD4", "U+10CD5", "U+10CD6", "U+10CD7", "U+10CD8", "U+10CD9",
      "U+10CDA", "U+10CDB", "U+10CDC", "U+10CDD", "U+10CDE", "U+10CDF", "U+10CE0", "U+10CE1",
      "U+10CE2", "U+10CE3", "U+10CE4", "U+10CE5", "U+10CE6", "U+10CE7", "U+10CE8", "U+10CE9",
      "U+10CEA", "U+10CEB", "U+10CEC", "U+10CED", "U+10CEE", "U+10CEF", "U+10CF0", "U+10CF1",
      "U+10CF2", "U+118C0", "U+118C1", "U+118C2", "U+118C3", "U+118C4", "U+118C5", "U+118C6",
      "U+118C7", "U+118C8", "U+118C9", "U+118CA", "U+118CB", "U+118CC", "U+118CD", "U+118CE",
      "U+118CF", "U+118D0", "U+118D1", "U+118D2", "U+118D3", "U+118D4", "U+118D5", "U+118D6",
      "U+118D7", "U+118D8", "U+118D9", "U+118DA", "U+118DB", "U+118DC", "U+118DD", "U+118DE",
      "U+118DF", "U+16E60", "U+16E61", "U+16E62", "U+16E63", "U+16E64", "U+16E65", "U+16E66",
      "U+16E67", "U+16E68", "U+16E69", "U+16E6A", "U+16E6B", "U+16E6C", "U+16E6D", "U+16E6E",
      "U+16E6F", "U+16E70", "U+16E71", "U+16E72", "U+16E73", "U+16E74", "U+16E75", "U+16E76",
      "U+16E77", "U+16E78", "U+16E79", "U+16E7A", "U+16E7B", "U+16E7C", "U+16E7D", "U+16E7E",
      "U+16E7F", "U+1E922", "U+1E923", "U+1E924", "U+1E925", "U+1E926", "U+1E927", "U+1E928",
      "U+1E929", "U+1E92A", "U+1E92B", "U+1E92C", "U+1E92D", "U+1E92E", "U+1E92F", "U+1E930",
      "U+1E931", "U+1E932", "U+1E933", "U+1E934", "U+1E935", "U+1E936", "U+1E937", "U+1E938",
      "U+1E939", "U+1E93A", "U+1E93B", "U+1E93C", "U+1E93D", "U+1E93E", "U+1E93F", "U+1E940",
      "U+1E941", "U+1E942", "U+1E943">>

\* the character of lowest code point each of them matches, place by place
IgnoreCaseTo ==
    <<"A", "B", "C", "D", "E", "F", "G", "H",
      "I", "J", "K", "L", "M", "N", "O", "P",
      "Q", "R", "S", "T", "U", "V", "W", "X",
      "Y", "Z", "U+00C0", "U+00C1", "U+00C2", "U+00C3", "U+00C4", "U+00C5",
      "U+00C6", "U+00C7", "U+00C8", "U+00C9", "U+00CA", "U+00CB", "U+00CC", "U+00CD",
      "U+00CE", "U+00CF", "U+00D0", "U+00D1", "U+00D2", "U+00D3", "U+00D4", "U+00D5",
      "U+00D6", "U+00D8", "U+00D9", "U+00DA", "U+00DB", "U+00DC", "U+00DD", "U+00DE",
      "U+0100", "U+0102", "U+0104", "U+0106", "U+0108", "U+010A", "U+010C", "U+010E",
      "U+0110", "U+0112", "U+0114", "U+0116", "U+0118", "U+011A", "U+011C", "U+011E",
      "U+0120", "U+0122", "U+0124", "U+0126", "U+0128", "U+012A", "U+012C", "U+012E",
      "I", "I", "U+0132", "U+0134", "U+0136", "U+0139", "U+013B", "U+013D",
      "U+013F", "U+0141", "U+0143", "U+0145", "U+0147", "U+014A", "U+014C", "U+014E",
      "U+0150", "U+0152", "U+0154", "U+0156", "U+0158", "U+015A", "U+015C", "U+015E",
      "U+0160", "U+0162", "U+0164", "U+0166", "U+0168", "U+016A", "U+016C", "U+016E",
      "U+0170", "U+0172", "U+0174", "U+0176", "U+00FF", "U+0179", "U+017B", "U+017D",
      "S", "U+0182", "U+0184", "U+0187", "U+018B", "U+0191", "U+0198", "U+01A0",
      "U+01A2", "U+01A4", "U+01A7", "U+01AC", "U+01AF", "U+01B3", "U+01B5", "U+01B8",
      "U+01BC", "U+01C4", "U+01C4", "U+01C7", "U+01C7", "U+01CA", "U+01CA", "U+01CD",
      "U+01CF", "U+01D1", "U+01D3", "U+01D5", "U+01D7", "U+01D9", "U+01DB", "U+018E",
      "U+01DE", "U+01E0", "U+01E2", "U+01E4", "U+01E6", "U+01E8", "U+01EA", "U+01EC",
      "U+01EE", "U+01F1", "U+01F1", "U+01F4", "U+0195", "U+01BF", "U+01F8", "U+01FA",
      "U+01FC", "U+01FE", "U+0200", "U+0202", "U+0204", "U+0206", "U+0208", "U+020A",
      "U+020C", "U+020E", "U+0210", "U+0212", "U+0214", "U+0216", "U+0218", "U+021A",
      "U+021C", "U+021E", "U+019E", "U+0222", "U+0224", "U+0226", "U+0228", "U+022A",
      "U+022C", "U+022E", "U+0230", "U+0232", "U+023B", "U+019A", "U+0241", "U+0180",
      "U+0246", "U+0248", "U+024A", "U+024C", "U+024E", "U+0181", "U+0186", "U+0189",
      "U+018A", "U+018F", "U+0190", "U+0193", "U+0194", "U+0197", "U+0196", "U+019C",
      "U+019D", "U+019F", "U+01A6", "U+01A9", "U+01AE", "U+0244", "U+01B1", "U+01B2",
      "U+0245", "U+01B7", "U+0370", "U+0372", "U+0376", "U+0345", "U+00B5", "U+0386",
      "U+0388", "U+0389", "U+038A", "U+0391", "U+0392", "U+0393", "U+0394", "U+0395",
      "U+0396", "U+0397", "U+0398", "U+0345", "U+039A", "U+039B", "U+00B5", "U+039D",
      "U+039E", "U+039F", "U+03A0", "U+03A1", "U+03A3", "U+03A3", "U+03A4", "U+03A5",
      "U+03A6", "U+03A7", "U+03A8", "U+03A9", "U+03AA", "U+03AB", "U+038C", "U+038E",
      "U+038F", "U+0392", "U+0398", "U+03A6", "U+03A0", "U+03CF", "U+03D8", "U+03DA",
      "U+03DC", "U+03DE", "U+03E0", "U+03E2", "U+03E4", "U+03E6", "U+03E8", "U+03EA",
      "U+03EC", "U+03EE", "U+039A", "U+03A1", "U+037F", "U+0398", "U+0395", "U+03F7",
      "U+03F2", "U+03FA", "U+037B", "U+037C", "U+037D", "U+0410", "U+0411", "U+0412",
      "U+0413", "U+0414", "U+0415", "U+0416", "U+0417", "U+0418", "U+0419", "U+041A",
      "U+041B", "U+041C", "U+041D", "U+041E", "U+041F", "U+0420", "U+0421", "U+0422",
      "U+0423", "U+0424", "U+0425", "U+0426", "U+0427", "U+0428", "U+0429", "U+042A",
      "U+042B", "U+042C", "U+042D", "U+042E", "U+042F", "U+0400", "U+0401", "U+0402",
      "U+0403", "U+0404", "U+0405", "U+0406", "U+0407", "U+0408", "U+0409", "U+040A",
      "U+040B", "U+040C", "U+040D", "U+040E", "U+040F", "U+0460", "U+0462", "U+0464",
      "U+0466", "U+0468", "U+046A", "U+046C", "U+046E", "U+0470", "U+0472", "U+0474",
      "U+0476", "U+0478", "U+047A", "U+047C", "U+047E", "U+0480", "U+048A", "U+048C",
      "U+048E", "U+0490", "U+0492", "U+0494", "U+0496", "U+0498", "U+049A", "U+049C",
      "U+049E", "U+04A0", "U+04A2", "U+04A4", "U+04A6", "U+04A8", "U+04AA", "U+04AC",
      "U+04AE", "U+04B0", "U+04B2", "U+04B4", "U+04B6", "U+04B8", "U+04BA", "U+04BC",
      "U+04BE", "U+04C1", "U+04C3", "U+04C5", "U+04C7", "U+04C9", "U+04CB", "U+04CD",
      "U+04C0", "U+04D0", "U+04D2", "U+04D4", "U+04D6", "U+04D8", "U+04DA", "U+04DC",
      "U+04DE", "U+04E0", "U+04E2", "U+04E4", "U+04E6", "U+04E8", "U+04EA", "U+04EC",
      "U+04EE", "U+04F0", "U+04F2", "U+04F4", "U+04F6", "U+04F8", "U+04FA", "U+04FC",
      "U+04FE", "U+0500", "U+0502", "U+0504", "U+0506", "U+0508", "U+050A", "U+050C",
      "U+050E", "U+0510", "U+0512", "U+0514", "U+0516", "U+0518", "U+051A", "U+051C",
      "U+051E", "U+0520", "U+0522", "U+0524", "U+0526", "U+0528", "U+052A", "U+052C",
      "U+052E", "U+0531", "U+0532", "U+0533", "U+0534", "U+0535", "U+0536", "U+0537",
      "U+0538", "U+0539", "U+053A", "U+053B", "U+053C", "U+053D", "U+053E", "U+053F",
      "U+0540", "U+0541", "U+0542", "U+0543", "U+0544", "U+0545", "U+0546", "U+0547",
      "U+0548", "U+0549", "U+054A", "U+054B", "U+054C", "U+054D", "U+054E", "U+054F",
      "U+0550", "U+0551", "U+0552", "U+0553", "U+0554", "U+0555", "U+0556", "U+13F0",
      "U+13F1", "U+13F2", "U+13F3", "U+13F4", "U+13F5", "U+0412", "U+0414", "U+041E",
      "U+0421", "U+0422", "U+0422", "U+042A", "U+0462", "U+10D0", "U+10D1", "U+10D2",
      "U+10D3", "U+10D4", "U+10D5", "U+10D6", "U+10D7", "U+10D8", "U+10D9", "U+10DA",
      "U+10DB", "U+10DC", "U+10DD", "U+10DE", "U+10DF", "U+10E0", "U+10E1", "U+10E2",
      "U+10E3", "U+10E4", "U+10E5", "U+10E6", "U+10E7", "U+10E8", "U+10E9", "U+10EA",
      "U+10EB", "U+10EC", "U+10ED", "U+10EE", "U+10EF", "U+10F0", "U+10F1", "U+10F2",
      "U+10F3", "U+10F4", "U+10F5", "U+10F6", "U+10F7", "U+10F8", "U+10F9", "U+10FA",
      "U+10FD", "U+10FE", "U+10FF", "U+1E00", "U+1E02", "U+1E04", "U+1E06", "U+1E08",
      "U+1E0A", "U+1E0C", "U+1E0E", "U+1E10", "U+1E12", "U+1E14", "U+1E16", "U+1E18",
      "U+1E1A", "U+1E1C", "U+1E1E", "U+1E20", "U+1E22", "U+1E24", "U+1E26", "U+1E28",
      "U+1E2A", "U+1E2C", "U+1E2E", "U+1E30", "U+1E32", "U+1E34", "U+1E36", "U+1E38",
      "U+1E3A", "U+1E3C", "U+1E3E", "U+1E40", "U+1E42", "U+1E44", "U+1E46", "U+1E48",
      "U+1E4A", "U+1E4C", "U+1E4E", "U+1E50", "U+1E52", "U+1E54", "U+1E56", "U+1E58",
      "U+1E5A", "U+1E5C", "U+1E5E", "U+1E60", "U+1E62", "U+1E64", "U+1E66", "U+1E68",
      "U+1E6A", "U+1E6C", "U+1E6E", "U+1E70", "U+1E72", "U+1E74", "U+1E76", "U+1E78",
      "U+1E7A", "U+1E7C", "U+1E7E", "U+1E80", "U+1E82", "U+1E84", "U+1E86", "U+1E88",
      "U+1E8A", "U+1E8C", "U+1E8E", "U+1E90", "U+1E92", "U+1E94", "U+1E60", "U+00DF",
      "U+1EA0", "U+1EA2", "U+1EA4", "U+1EA6", "U+1EA8", "U+1EAA", "U+1EAC", "U+1EAE",
      "U+1EB0", "U+1EB2", "U+1EB4", "U+1EB6", "U+1EB8", "U+1EBA", "U+1EBC", "U+1EBE",
      "U+1EC0", "U+1EC2", "U+1EC4", "U+1EC6", "U+1EC8", "U+1ECA", "U+1ECC", "U+1ECE",
      "U+1ED0", "U+1ED2", "U+1ED4", "U+1ED6", "U+1ED8", "U+1EDA", "U+1EDC", "U+1EDE",
      "U+1EE0", "U+1EE2", "U+1EE4", "U+1EE6", "U+1EE8", "U+1EEA", "U+1EEC", "U+1EEE",
      "U+1EF0", "U+1EF2", "U+1EF4", "U+1EF6", "U+1EF8", "U+1EFA", "U+1EFC", "U+1EFE",
      "U+1F00", "U+1F01", "U+1F02", "U+1F03", "U+1F04", "U+1F05", "U+1F06", "U+1F07",
      "U+1F10", "U+1F11", "U+1F12", "U+1F13", "U+1F14", "U+1F15", "U+1F20", "U+1F21",
      "U+1F22", "U+1F23", "U+1F24", "U+1F25", "U+1F26", "U+1F27", "U+1F30", "U+1F31",
      "U+1F32", "U+1F33", "U+1F34", "U+1F35", "U+1F36", "U+1F37", "U+1F40", "U+1F41",
      "U+1F42", "U+1F43", "U+1F44", "U+1F45", "U+1F51", "U+1F53", "U+1F55", "U+1F57",
      "U+1F60", "U+1F61", "U+1F62", "U+1F63", "U+1F64", "U+1F65", "U+1F66", "U+1F67",
      "U+1F80", "U+1F81", "U+1F82", "U+1F83", "U+1F84", "U+1F85", "U+1F86", "U+1F87",
      "U+1F90", "U+1F91", "U+1F92", "U+1F93", "U+1F94", "U+1F95", "U+1F96", "U+1F97",
      "U+1FA0", "U+1FA1", "U+1FA2", "U+1FA3", "U+1FA4", "U+1FA5", "U+1FA6", "U+1FA7",
      "U+1FB0", "U+1FB1", "U+1F70", "U+1F71", "U+1FB3", "U+0345", "U+1F72", "U+1F73",
      "U+1F74", "U+1F75", "U+1FC3", "U+0390", "U+1FD0", "U+1FD1", "U+1F76", "U+1F77",
      "U+03B0", "U+1FE0", "U+1FE1", "U+1F7A", "U+1F7B", "U+1FE5", "U+1F78", "U+1F79",
      "U+1F7C", "U+1F7D", "U+1FF3", "U+03A9", "K", "U+00C5", "U+2132", "U+2160",
      "U+2161", "U+2162", "U+2163", "U+2164", "U+2165", "U+2166", "U+2167", "U+2168",
      "U+2169", "U+216A", "U+216B", "U+216C", "U+216D", "U+216E", "U+216F", "U+2183",
      "U+24B6", "U+24B7", "U+24B8", "U+24B9", "U+24BA", "U+24BB", "U+24BC", "U+24BD",
      "U+24BE", "U+24BF", "U+24C0", "U+24C1", "U+24C2", "U+24C3", "U+24C4", "U+24C5",
      "U+24C6", "U+24C7", "U+24C8", "U+24C9", "U+24CA", "U+24CB", "U+24CC", "U+24CD",
      "U+24CE", "U+24CF", "U+2C00", "U+2C01", "U+2C02", "U+2C03", "U+2C04", "U+2C05",
      "U+2C06", "U+2C07", "U+2C08", "U+2C09", "U+2C0A", "U+2C0B", "U+2C0C", "U+2C0D",
      "U+2C0E", "U+2C0F", "U+2C10", "U+2C11", "U+2C12", "U+2C13", "U+2C14", "U+2C15",
      "U+2C16", "U+2C17", "U+2C18", "U+2C19", "U+2C1A", "U+2C1B", "U+2C1C", "U+2C1D",
      "U+2C1E", "U+2C1F", "U+2C20", "U+2C21", "U+2C22", "U+2C23", "U+2C24", "U+2C25",
      "U+2C26", "U+2C27", "U+2C28", "U+2C29", "U+2C2A", "U+2C2B", "U+2C2C", "U+2C2D",
      "U+2C2E", "U+2C2F", "U+2C60", "U+026B", "U+1D7D", "U+027D", "U+023A", "U+023E",
      "U+2C67", "U+2C69", "U+2C6B", "U+0251", "U+0271", "U+0250", "U+0252", "U+2C72",
      "U+2C75", "U+023F", "U+0240", "U+2C80", "U+2C82", "U+2C84", "U+2C86", "U+2C88",
      "U+2C8A", "U+2C8C", "U+2C8E", "U+2C90", "U+2C92", "U+2C94", "U+2C96", "U+2C98",
      "U+2C9A", "U+2C9C", "U+2C9E", "U+2CA0", "U+2CA2", "U+2CA4", "U+2CA6", "U+2CA8",
      "U+2CAA", "U+2CAC", "U+2CAE", "U+2CB0", "U+2CB2", "U+2CB4", "U+2CB6", "U+2CB8",
      "U+2CBA", "U+2CBC", "U+2CBE", "U+2CC0", "U+2CC2", "U+2CC4", "U+2CC6", "U+2CC8",
      "U+2CCA", "U+2CCC", "U+2CCE", "U+2CD0", "U+2CD2", "U+2CD4", "U+2CD6", "U+2CD8",
      "U+2CDA", "U+2CDC", "U+2CDE", "U+2CE0", "U+2CE2", "U+2CEB", "U+2CED", "U+2CF2",
      "U+10A0", "U+10A1", "U+10A2", "U+10A3", "U+10A4", "U+10A5", "U+10A6", "U+10A7",
      "U+10A8", "U+10A9", "U+10AA", "U+10AB", "U+10AC", "U+10AD", "U+10AE", "U+10AF",
      "U+10B0", "U+10B1", "U+10B2", "U+10B3", "U+10B4", "U+10B5", "U+10B6", "U+10B7",
      "U+10B8", "U+10B9", "U+10BA", "U+10BB", "U+10BC", "U+10BD", "U+10BE", "U+10BF",
      "U+10C0", "U+10C1", "U+10C2", "U+10C3", "U+10C4", "U+10C5", "U+10C7", "U+10CD",
      "U+A640", "U+A642", "U+A644", "U+A646", "U+A648", "U+1C88", "U+1C88", "U+A64C",
      "U+A64E", "U+A650", "U+A652", "U+A654", "U+A656", "U+A658", "U+A65A", "U+A65C",
      "U+A65E", "U+A660", "U+A662", "U+A664", "U+A666", "U+A668", "U+A66A", "U+A66C",
      "U+A680", "U+A682", "U+A684", "U+A686", "U+A688", "U+A68A", "U+A68C", "U+A68E",
      "U+A690", "U+A692", "U+A694", "U+A696", "U+A698", "U+A69A", "U+A722", "U+A724",
      "U+A726", "U+A728", "U+A72A", "U+A72C", "U+A72E", "U+A732", "U+A734", "U+A736",
      "U+A738", "U+A73A", "U+A73C", "U+A73E", "U+A740", "U+A742", "U+A744", "U+A746",
      "U+A748", "U+A74A", "U+A74C", "U+A74E", "U+A750", "U+A752", "U+A754", "U+A756",
      "U+A758", "U+A75A", "U+A75C", "U+A75E", "U+A760", "U+A762", "U+A764", "U+A766",
      "U+A768", "U+A76A", "U+A76C", "U+A76E", "U+A779", "U+A77B", "U+1D79", "U+A77E",
      "U+A780", "U+A782", "U+A784", "U+A786", "U+A78B", "U+0265", "U+A790", "U+A792",
      "U+A796", "U+A798", "U+A79A", "U+A79C", "U+A79E", "U+A7A0", "U+A7A2", "U+A7A4",
      "U+A7A6", "U+A7A8", "U+0266", "U+025C", "U+0261", "U+026C", "U+026A", "U+029E",
      "U+0287", "U+029D", "U+A7B4", "U+A7B6", "U+A7B8", "U+A7BA", "U+A7BC", "U+A7BE",
      "U+A7C0", "U+A7C2", "U+A794", "U+0282", "U+1D8E", "U+A7C7", "U+A7C9", "U+A7D0",
      "U+A7D6", "U+A7D8", "U+A7F5", "U+A7B3", "U+13A0", "U+13A1", "U+13A2", "U+13A3",
      "U+13A4", "U+13A5", "U+13A6", "U+13A7", "U+13A8", "U+13A9", "U+13AA", "U+13AB",
      "U+13AC", "U+13AD", "U+13AE", "U+13AF", "U+13B0", "U+13B1", "U+13B2", "U+13B3",
      "U+13B4", "U+13B5", "U+13B6", "U+13B7", "U+13B8", "U+13B9", "U+13BA", "U+13BB",
      "U+13BC", "U+13BD", "U+13BE", "U+13BF", "U+13C0", "U+13C1", "U+13C2", "U+13C3",
      "U+13C4", "U+13C5", "U+13C6", "U+13C7", "U+13C8", "U+13C9", "U+13CA", "U+13CB",
      "U+13CC", "U+13CD", "U+13CE", "U+13CF", "U+13D0", "U+13D1", "U+13D2", "U+13D3",
      "U+13D4", "U+13D5", "U+13D6", "U+13D7", "U+13D8", "U+13D9", "U+13DA", "U+13DB",
      "U+13DC", "U+13DD", "U+13DE", "U+13DF", "U+13E0", "U+13E1", "U+13E2", "U+13E3",
      "U+13E4", "U+13E5", "U+13E6", "U+13E7", "U+13E8", "U+13E9", "U+13EA", "U+13EB",
      "U+13EC", "U+13ED", "U+13EE", "U+13EF", "U+FB05", "U+FF21", "U+FF22", "U+FF23",
      "U+FF24", "U+FF25", "U+FF26", "U+FF27", "U+FF28", "U+FF29", "U+FF2A", "U+FF2B",
      "U+FF2C", "U+FF2D", "U+FF2E", "U+FF2F", "U+FF30", "U+FF31", "U+FF32", "U+FF33",
      "U+FF34", "U+FF35", "U+FF36", "U+FF37", "U+FF38", "U+FF39", "U+FF3A", "U+10400",
      "U+10401", "U+10402", "U+10403", "U+10404", "U+10405", "U+10406", "U+10407", "U+10408",
      "U+10409", "U+1040A", "U+1040B", "U+1040C", "U+1040D", "U+1040E", "U+1040F", "U+10410",
      "U+10411", "U+10412", "U+10413", "U+10414", "U+10415", "U+10416", "U+10417", "U+10418",
      "U+10419", "U+1041A", "U+1041B", "U+1041C", "U+1041D", "U+1041E", "U+1041F", "U+10420",
      "U+10421", "U+10422", "U+10423", "U+10424", "U+10425", "U+10426", "U+10427", "U+104B0",
      "U+104B1", "U+104B2", "U+104B3", "U+104B4", "U+104B5", "U+104B6", "U+104B7", "U+104B8",
      "U+104B9", "U+104BA", "U+104BB", "U+104BC", "U+104BD", "U+104BE", "U+104BF", "U+104C0",
      "U+104C1", "U+104C2", "U+104C3", "U+104C4", "U+104C5", "U+104C6", "U+104C7", "U+104C8",
      "U+104C9", "U+104CA", "U+104CB", "U+104CC", "U+104CD", "U+104CE", "U+104CF", "U+104D0",
      "U+104D1", "U+104D2", "U+104D3", "U+10570", "U+10571", "U+10572", "U+10573", "U+10574",
      "U+10575", "U+10576", "U+10577", "U+10578", "U+10579", "U+1057A", "U+1057C", "U+1057D",
      "U+1057E", "U+1057F", "U+10580", "U+10581", "U+10582", "U+10583", "U+10584", "U+10585",
      "U+10586", "U+10587", "U+10588", "U+10589", "U+1058A", "U+1058C", "U+1058D", "U+1058E",
      "U+1058F", "U+10590", "U+10591", "U+10592", "U+10594", "U+10595", "U+10C80", "U+10C81",
      "U+10C82", "U+10C83", "U+10C84", "U+10C85", "U+10C86", "U+10C87", "U+10C88", "U+10C89",
      "U+10C8A", "U+10C8B", "U+10C8C", "U+10C8D", "U+10C8E", "U+10C8F", "U+10C90", "U+10C91",
      "U+10C92", "U+10C93", "U+10C94", "U+10C95", "U+10C96", "U+10C97", "U+10C98", "U+10C99",
      "U+10C9A", "U+10C9B", "U+10C9C", "U+10C9D", "U+10C9E", "U+10C9F", "U+10CA0", "U+10CA1",
      "U+10CA2", "U+10CA3", "U+10CA4", "U+10CA5", "U+10CA6", "U+10CA7", "U+10CA8", "U+10CA9",
      "U+10CAA", "U+10CAB", "U+10CAC", "U+10CAD", "U+10CAE", "U+10CAF", "U+10CB0", "U+10CB1",
      "U+10CB2", "U+118A0", "U+118A1", "U+118A2", "U+118A3", "U+118A4", "U+118A5", "U+118A6",
      "U+118A7", "U+118A8", "U+118A9", "U+118AA", "U+118AB", "U+118AC", "U+118AD", "U+118AE",
      "U+118AF", "U+118B0", "U+118B1", "U+118B2", "U+118B3", "U+118B4", "U+118B5", "U+118B6",
      "U+118B7", "U+118B8", "U+118B9", "U+118BA", "U+118BB", "U+118BC", "U+118BD", "U+118BE",
      "U+118BF", "U+16E40", "U+16E41", "U+16E42", "U+16E43", "U+16E44", "U+16E45", "U+16E46",
      "U+16E47", "U+16E48", "U+16E49", "U+16E4A", "U+16E4B", "U+16E4C", "U+16E4D", "U+16E4E",
      "U+16E4F", "U+16E50", "U+16E51", "U+16E52", "U+16E53", "U+16E54", "U+16E55", "U+16E56",
      "U+16E57", "U+16E58", "U+16E59", "U+16E5A", "U+16E5B", "U+16E5C", "U+16E5D", "U+16E5E",
      "U+16E5F", "U+1E900", "U+1E901", "U+1E902", "U+1E903", "U+1E904", "U+1E905", "U+1E906",
      "U+1E907", "U+1E908", "U+1E909", "U+1E90A", "U+1E90B", "U+1E90C", "U+1E90D", "U+1E90E",
      "U+1E90F", "U+1E910", "U+1E911", "U+1E912", "U+1E913", "U+1E914", "U+1E915", "U+1E916",
      "U+1E917", "U+1E918", "U+1E919", "U+1E91A", "U+1E91B", "U+1E91C", "U+1E91D", "U+1E91E",
      "U+1E91F", "U+1E920", "U+1E921">>

IgnoreCaseMap ==
    [c \in {IgnoreCaseFrom[i] : i \in DOMAIN IgnoreCaseFrom} |->
        IgnoreCaseTo[CHOOSE i \in DOMAIN IgnoreCaseFrom : IgnoreCaseFrom[i] = c]]

\* the characters re.IGNORECASE takes for the same: one name for each class of
\* characters that match each other (a letter and its other case; dotless i and
\* dotted capital I with i; the Kelvin sign with k; long s with s; the two st
\* ligatures).  A character outside the table matches itself only.
IgnoreCaseChar(c) == IF c \in DOMAIN IgnoreCaseMap THEN IgnoreCaseMap[c] ELSE c

\* pandas  Series.str.contains(k, case=False)  for a literal k, on one value: a
\* regular expression search with re.IGNORECASE
ContainsIgnoreCase(s, k) ==
    \E i \in 0..(Len(s) - Len(k)) :
        \A j \in 1..Len(k) : IgnoreCaseChar(s[i + j]) = IgnoreCaseChar(k[j])

-----------------------------------------------------------------------------
(* Categorizer: finance_analyzer.enhanced_categorization *)

HousingProvider == <<"N", "A", "S", "A", "A", "M", "E", "S", "E", "X", "C", "H", "A", "N", "G", "E", "L">>

CoffeeKeywords ==
    { <<"C", "O", "F", "F", "E", "E">>,
      <<"C", "O", "P", "P", "E", "R", "L", "I", "N", "E">>,
      <<"S", "T", "A", "R", "B", "U", "C", "K", "S">>,
      <<"C", "O", "F", "F", "E", "E", " ", "V", "I", "L", "L", "A", "G", "E">>,
      <<"S", "I", "G", "H", "T", "G", "L", "A", "S", "S">> }

TechKeywords ==
    { <<"C", "U", "R", "S", "O", "R">>,
      <<"O", "P", "E", "N", "A", "I">>,
      <<"C", "H", "A", "T", "G", "P", "T">>,
      <<"A", "P", "P", "L", "E", ".", "C", "O", "M">> }

TransportKeywords ==
    { <<"U", "B", "E", "R">>,
      <<"L", "Y", "F", "T">>,
      <<"C", "L", "I", "P", "P", "E", "R">>,
      <<"Z", "I", "P", "C", "A", "R">> }

AirlineKeywords ==
    { <<"U", "N", "I", "T", "E", "D", " ", "A", "I", "R", "L", "I", "N", "E", "S">> }

AsianKeywords ==
    { <<"T", "H", "A", "I", " ", "N", "O", "O", "D", "L", "E">>,
      <<"P", "H", "O", " ", "T", "O", " ", "L", "U", "V">>,
      <<"5", "T", "H", " ", "E", "L", "E", "M", "E", "N", "T", " ", "I", "N", "D", "I", "A">> }

FastFoodKeywords ==
    { <<"M", "C", "D", "O", "N", "A", "L", "D">>,
      <<"C", "H", "I", "P", "O", "T", "L", "E">>,
      <<"C", "H", "I", "C", "K", "-", "F", "I", "L", "-", "A">>,
      <<"I", "N", "-", "N", "-", "O", "U", "T">> }

EduKeywords ==
    { <<"N", "A", "S", "A">>,
      <<"E", "M", "B", "R", "Y", " ", "R", "I", "D", "D", "L", "E">>,
      <<"E", "R", "A", "U">> }

GasKeywords ==
    { <<"E", "X", "X", "O", "N", "M", "O", "B", "I", "L">>,
      <<"S", "H", "E", "L", "L">>,
      <<"C", "H", "E", "V", "R", "O", "N">>,
      <<"W", "A", "W", "A">>,
      <<"C", "I", "R", "C", "L", "E", " ", "K">>,
      <<"M", "A", "R", "A", "T", "H", "O", "N">> }

GroceryKeywords ==
    { <<"P", "U", "B", "L", "I", "X">>,
      <<"S", "A", "F", "E", "W", "A", "Y">>,
      <<"T", "R", "A", "D", "E", "R", " ", "J", "O", "E">>,
      <<"W", "I", "N", "N", "-", "D", "I", "X", "I", "E">>,
      <<"T", "A", "R", "G", "E", "T">> }

\* any(k in desc for k in keywords)
AnyIn(keywords, desc) == \E k \in keywords : Contains(desc, k)

\* categorize_enhanced with the grocery source categories tested before the
\* education and gas keywords
categorize_enhanced_groceries_first(row) ==
    LET desc == Upper(row.Description)
        original_cat == row.Category
    IN  IF row.Description = NaNText THEN AttributeError
        ELSE IF Contains(desc, HousingProvider) THEN "Housing"
        ELSE IF AnyIn(CoffeeKeywords, desc) THEN "Coffee & Cafes"
        ELSE IF AnyIn(TechKeywords, desc) THEN "Tech & Software"
        ELSE IF AnyIn(TransportKeywords, desc) THEN "Transportation"
        ELSE IF AnyIn(AirlineKeywords, desc) THEN "Air Travel"
        ELSE IF \/ AnyIn(AsianKeywords, desc)
                \/ AnyIn(FastFoodKeywords, desc)
                \/ original_cat = "Restaurants" THEN "Restaurants & Dining"
        ELSE IF \/ AnyIn(GroceryKeywords, desc)
                \/ original_cat \in {"Groceries", "Supermarkets"}
             THEN "Groceries & Supermarkets"
        ELSE IF AnyIn(EduKeywords, desc) /\ ~Contains(desc, HousingProvider)
             THEN "Education/Work"
        ELSE IF AnyIn(GasKeywords, desc) THEN "Gas & Fuel"
        ELSE IF original_cat = "Travel/ Entertainment" THEN "Travel & Entertainment"
        ELSE IF original_cat = "Awards and Rebate Credits" THEN "Cashback & Credits"
        ELSE IF original_cat = "Payments and Credits" THEN "Payments & Credits"
        ELSE original_cat

\* the branches of categorize_enhanced, in the order of the if/elif chain; line 155
\* calls .upper() on the description, which raises AttributeError when the cell is
\* empty (NaN, a float)
categorize_enhanced(row) ==
    LET desc == Upper(row.Description)
        original_cat == row.Category
    IN  IF row.Description = NaNText THEN AttributeError
        ELSE IF Contains(desc, HousingProvider) THEN "Housing"
        ELSE IF AnyIn(CoffeeKeywords, desc) THEN "Coffee & Cafes"
        ELSE IF AnyIn(TechKeywords, desc) THEN "Tech & Software"
        ELSE IF AnyIn(TransportKeywords, desc) THEN "Transportation"
        ELSE IF AnyIn(AirlineKeywords, desc) THEN "Air Travel"
        ELSE IF \/ AnyIn(AsianKeywords, desc)
                \/ AnyIn(FastFoodKeywords, desc)
                \/ original_cat = "Restaurants" THEN "Restaurants & Dining"
        ELSE IF AnyIn(EduKeywords, desc) /\ ~Contains(desc, HousingProvider)
             THEN "Education/Work"
        ELSE IF AnyIn(GasKeywords, desc) THEN "Gas & Fuel"
        ELSE IF \/ AnyIn(GroceryKeywords, desc)
                \/ original_cat \in {"Groceries", "Supermarkets"}
             THEN "Groceries & Supermarkets"
        ELSE IF original_cat = "Travel/ Entertainment" THEN "Travel & Entertainment"
        ELSE IF original_cat = "Awards and Rebate Credits" THEN "Cashback & Credits"
        ELSE IF original_cat = "Payments and Credits" THEN "Payments & Credits"
        ELSE original_cat

\* df['Enhanced_Category'] = df.apply(categorize_enhanced, axis=1)
enhanced_categorization(df) ==
    [i \in 1..Len(df) |->
        ("Enhanced_Category" :> categorize_enhanced(df[i])) @@ df[i]]

\* descriptions given to the categorizer alone
CatDescriptions ==
    { <<"S", "T", "A", "R", "B", "U", "C", "K", "S", " ", "#", "1", "2", "3">>,
      <<"L", "O", "C", "A", "L", " ", "D", "I", "N", "E", "R">>,
      <<"B", "l", "u", "e", " ", "B", "o", "t", "t", "l", "e", " ", "C", "o", "f", "f", "e", "e">>,
      <<"N", "A", "S", "A", "A", "M", "E", "S", "E", "X", "C", "H", "A", "N", "G", "E", "L">>,
      <<"N", "A", "S", "A", "A", "M", "E", "S", "E", "X", "C", "H", "A", "N", "G", "E", "L", " ", "S", "T", "A", "R", "B", "U", "C", "K", "S">>,
      <<"C", "U", "R", "S", "O", "R", " ", "A", "I">>,
      <<"U", "B", "E", "R", " ", "T", "R", "I", "P">>,
      <<"U", "N", "I", "T", "E", "D", " ", "A", "I", "R", "L", "I", "N", "E", "S">>,
      <<"C", "H", "I", "P", "O", "T", "L", "E", " ", "1", "2", "3", "4">>,
      <<"T", "H", "A", "I", " ", "N", "O", "O", "D", "L", "E", " ", "H", "O", "U", "S", "E">>,
      <<"N", "A", "S", "A", " ", "G", "I", "F", "T", " ", "S", "H", "O", "P">>,
      <<"E", "R", "A", "U", " ", "B", "O", "O", "K", "S", "T", "O", "R", "E">>,
      <<"S", "H", "E", "L", "L", " ", "O", "I", "L">>,
      <<"S", "A", "F", "E", "W", "A", "Y", " ", "#", "1">>,
      <<"T", "A", "R", "G", "E", "T", " ", "T", "-", "0", "3", "2", "1">>,
      <<"S", "T", "A", "R", "B", "U", "C", "K", "S", " ", "I", "N", " ", "T", "A", "R", "G", "E", "T">>,
      <<"U", "B", "E", "R", " ", "E", "A", "T", "S", " ", "M", "C", "D", "O", "N", "A", "L", "D">>,
      <<"C", "H", "E", "V", "R", "O", "N", " ", "C", "H", "A", "T", "G", "P", "T">>,
      <<"A", "M", "A", "Z", "O", "N", " ", "M", "K", "T", "P", "L">> }

\* the Category column of the card file; NaN when the field is empty
SourceCategories ==
    { "Restaurants", "Groceries", "Supermarkets", "Gasoline", "Merchandise",
      "Travel/ Entertainment", "Awards and Rebate Credits",
      "Payments and Credits", NaN }

-----------------------------------------------------------------------------
(* Payment markers and the card adapter *)

PaymentMarkers ==
    { <<"I", "N", "T", "E", "R", "N", "E", "T", " ", "P", "A", "Y", "M", "E", "N", "T">>,
      <<"P", "A", "Y", "M", "E", "N", "T", " ", "-", " ", "T", "H", "A", "N", "K", " ", "Y", "O", "U">>,
      <<"D", "I", "R", "E", "C", "T", "P", "A", "Y">> }

\* the condition of classify_transaction's elif: a marker in str(Description).upper()
MarkerInUpper(description) ==
    \E m \in PaymentMarkers : Contains(Upper(description), m)

\* classify_transaction without the .upper(): the markers matched case-sensitively
classify_transaction_case_sensitive(row) ==
    IF row.Amount > 0 THEN "Expense"
    ELSE IF \E m \in PaymentMarkers : Contains(row.Description, m)
         THEN "Credit Card Payment"
    ELSE "Credit/Payment"

\* classify_transaction of load_and_clean_data (CLI)
classify_transaction(row) ==
    IF row.Amount > 0 THEN "Expense"
    ELSE IF MarkerInUpper(row.Description) THEN "Credit Card Payment"
    ELSE "Credit/Payment"

\* classify_transaction of process_discover_data (web)
classify_transaction_web(row) ==
    IF row.Amount > 0 THEN "Expense"
    ELSE IF MarkerInUpper(row.Description) THEN "Credit Card Payment"
    ELSE "Credit/Payment"

\* Description.str.contains('INTERNET PAYMENT|PAYMENT - THANK YOU|DIRECTPAY',
\*                          case=False, na=False), on one row
StrContainsMarker(description) ==
    /\ description # NaNText
    /\ \E m \in PaymentMarkers : ContainsIgnoreCase(description, m)

\* the mask (Amount < 0) & Description.str.contains(...)
PaymentMask(row) == row.Amount < 0 /\ StrContainsMarker(row.Description)

\* a filter that removes the first row of the mask only
FilterPayments_first_only(df) ==
    LET hits == {i \in 1..Len(df) : PaymentMask(df[i])}
        first == CHOOSE i \in hits : \A j \in hits : i <= j
    IN  IF hits = {} THEN df
        ELSE SubSeq(df, 1, first - 1) \o SubSeq(df, first + 1, Len(df))

\* df[~mask]
FilterPayments(df) ==
    LET Keep(row) == ~PaymentMask(row) IN SelectSeq(df, Keep)

\* df[df['Trans. Date'] >= start] and df[df['Trans. Date'] <= end]; None does not filter
DateFilter(df, start_date, end_date) ==
    LET Keep(row) ==
            /\ start_date = None \/ row.TransDate >= start_date[1]
            /\ end_date = None \/ row.TransDate <= end_date[1]
    IN  SelectSeq(df, Keep)

RECURSIVE SortFrom(_, _)
SortFrom(df, day) ==
    IF day > MaxDay THEN <<>>
    ELSE LET OnDay(row) == row.TransDate = day
         IN  SelectSeq(df, OnDay) \o SortFrom(df, day + 1)

\* the frame in ascending date order with the rows of one date in their input order:
\* what df.sort_values('Trans. Date') returns when its sort keeps ties in place
SortByDate(df) == SortFrom(df, 1)

\* df.sort_values('Trans. Date'): ascending.  No kind is given, so the sort is the
\* default quicksort, which is not a stable sort: the rows of one date come out in
\* an order the sort implementation decides.  The outcomes are all the ascending
\* arrangements of the rows.
sort_values(df) ==
    { [i \in 1..Len(df) |-> df[p[i]]] :
        p \in { q \in Permutations(1..Len(df)) :
                  \A i, j \in 1..Len(df) :
                      i < j => df[q[i]].TransDate <= df[q[j]].TransDate } }

\* the columns a frame keeps
Restrict(row, columns) == [c \in columns |-> row[c]]

MapRows(df, F(_)) == [i \in 1..Len(df) |-> F(df[i])]

-----------------------------------------------------------------------------
(* The categorized peer-payment file: VenmoCategorizer.export_final_data *)

OwnerName == <<"S", "i", "m", "o", "n", " ", "C", "o", "l", "e">>

FriendName == <<"A", "l", "e", "x", " ", "K", "i", "m">>

VenmoDash == <<"V", "e", "n", "m", "o", " ", "-", " ">>

Abs(x) == IF x < 0 THEN -x ELSE x

\* one iteration of the loop of export_final_data
export_row(transaction, store) ==
    LET to_owner == transaction.To = OwnerName
        other_party == IF to_owner THEN transaction.From ELSE transaction.To
    IN  [ Date |-> transaction.Datetime,
          Description |-> IF transaction.Note # NaNText
                          THEN transaction.Note
                          ELSE VenmoDash \o other_party,
          Amount |-> IF to_owner
                     THEN Abs(transaction.Amount_Clean)
                     ELSE -Abs(transaction.Amount_Clean),
          Category |-> IF transaction.ID \in DOMAIN store
                       THEN store[transaction.ID].category
                       ELSE "Uncategorized",
          Other_Party |-> other_party,
          Transaction_Type |-> IF to_owner THEN "Income" ELSE "Expense",
          Source |-> "Venmo",
          Original_ID |-> transaction.ID ]

export_final_data(original_df, store) ==
    [i \in 1..Len(original_df) |-> export_row(original_df[i], store)]

-----------------------------------------------------------------------------
(* Peer-payment adapter *)

\* load_venmo_data without the sign flip
venmo_row_unflipped(r) ==
    [ TransDate |-> r.Date,
      Enhanced_Category |-> r.Category,
      Source |-> "Venmo",
      Type |-> r.Transaction_Type ] @@ r

\* the column assignments of load_venmo_data (CLI), on one row of the file
venmo_row(r) ==
    [ TransDate |-> r.Date,
      Enhanced_Category |-> r.Category,
      Source |-> "Venmo",
      Amount |-> -r.Amount,
      Type |-> r.Transaction_Type ] @@ r

\* the column assignments of process_venmo_data (web), on one row of the upload
venmo_row_web(r) ==
    [ TransDate |-> r.Date,
      Enhanced_Category |-> r.Category,
      Source |-> "Venmo",
      Amount |-> -r.Amount,
      Type |-> r.Transaction_Type ] @@ r

\* the column assignments of load_venmo_data of debug_credits.py, on one row of the file
venmo_row_debug(r) ==
    [ TransDate |-> r.Date,
      Enhanced_Category |-> r.Category,
      Source |-> "Venmo",
      Type |-> r.Transaction_Type ] @@ r

\* load_venmo_data: an empty frame when the file does not exist
load_venmo_data(file, start_date, end_date) ==
    IF ~file.exists THEN <<>>
    ELSE DateFilter(MapRows(file.rows, venmo_row), start_date, end_date)

\* process_venmo_data on an uploaded frame
process_venmo_data(data_input, start_date, end_date) ==
    DateFilter(MapRows(data_input, venmo_row_web), start_date, end_date)

CommonColumns ==
    {"TransDate", "Description", "Amount", "Enhanced_Category", "Type", "Source"}

-----------------------------------------------------------------------------
(* Card adapter and the entry points *)

\* enhanced_categorization raises on a frame that holds a row with an empty
\* description, where categorize_enhanced raises, and on a frame without rows:
\* df.apply(..., axis=1) then calls categorize_enhanced on a row of NaN, where
\* row['Description'].upper() raises, so apply returns a copy of the frame and not a
\* column, and the assignment of a frame to df['Enhanced_Category'] raises.
\* (classify_transaction returns normally on a row of NaN, so df['Type'] gets an
\* empty column.)
enhanced_categorization_raises(df) ==
    \/ df = <<>>
    \/ \E i \in 1..Len(df) : df[i].Description = NaNText

\* load_and_clean_data up to the Venmo integration: dates, date window, Type, Source
card_adapter(csv, start_date, end_date) ==
    LET df == DateFilter(csv, start_date, end_date)
        Typed(row) == [Type |-> classify_transaction(row), Source |-> "Discover"] @@ row
    IN  [status |-> "ok", df |-> MapRows(df, Typed)]

\* load_and_clean_data: the frames it can return (one, unless sort_values has ties)
load_and_clean_data(csv, file, start_date, end_date, include_venmo) ==
    LET card == card_adapter(csv, start_date, end_date)
        venmo_df == IF include_venmo
                    THEN load_venmo_data(file, start_date, end_date)
                    ELSE <<>>
        called == IF include_venmo THEN <<"venmo_adapter">> ELSE <<>>
        df_combined == enhanced_categorization(card.df)
        \* pd.concat keeps the union of the columns: a Venmo row has NaN in the
        \* columns only the card frame has ('Post Date' is set by load_venmo_data)
        card_only == IF df_combined = <<>> THEN {}
                     ELSE DOMAIN df_combined[1] \ CommonColumns
        ToCommon(row) ==
            Restrict(row, CommonColumns)
            @@ [c \in card_only |-> IF c = "PostDate" THEN row.TransDate ELSE NaN]
        venmo_combined == MapRows(venmo_df, ToCommon)
    IN  IF venmo_df # <<>> /\ enhanced_categorization_raises(card.df)
        THEN { [status |-> "error", df |-> <<>>, discover |-> <<>>, venmo |-> <<>>,
                events |-> <<"card_adapter">> \o called] }
        ELSE IF venmo_df # <<>>
        THEN { [status |-> "ok", df |-> FilterPayments(combined_df),
                discover |-> card.df, venmo |-> venmo_df,
                events |-> <<"card_adapter">> \o called
                           \o <<"categorize", "merge", "payment_filter">>]
               : combined_df \in sort_values(df_combined \o venmo_combined) }
        ELSE { [status |-> "ok", df |-> card.df, discover |-> card.df,
                venmo |-> venmo_df, events |-> <<"card_adapter">> \o called] }

\* process_discover_data; an exception is caught and None returned: status "error"
process_discover_data(data_input, start_date, end_date) ==
    LET df == DateFilter(data_input, start_date, end_date)
        Typed(row) == [Type |-> classify_transaction_web(row), Source |-> "Discover"] @@ row
    IN  IF enhanced_categorization_raises(df) THEN [status |-> "error", df |-> <<>>]
        ELSE [status |-> "ok",
              df |-> FilterPayments(enhanced_categorization(MapRows(df, Typed)))]

\* combine_datasets: the frames it can return (one, unless sort_values has ties)
combine_datasets(discover_df, venmo_df) ==
    LET ToCommon(row) == Restrict(row, CommonColumns)
    IN  IF venmo_df = <<>> THEN {discover_df}
        ELSE sort_values(MapRows(discover_df, ToCommon) \o MapRows(venmo_df, ToCommon))

-----------------------------------------------------------------------------
(* Aggregator *)

RECURSIVE SumAmount(_)
\* df['Amount'].sum()
SumAmount(df) == IF df = <<>> THEN 0 ELSE Head(df).Amount + SumAmount(Tail(df))

Expenses(df) == LET Pos(row) == row.Amount > 0 IN SelectSeq(df, Pos)

\* df[(df['Amount'] < 0) & (~df['Description'].str.contains(markers, case=False, na=False))]
IncomeExcludingMarkers(df) ==
    LET Inc(row) == row.Amount < 0 /\ ~StrContainsMarker(row.Description)
    IN  SelectSeq(df, Inc)

\* df[df['Amount'] < 0]
Negatives(df) == LET Neg(row) == row.Amount < 0 IN SelectSeq(df, Neg)

\* df.groupby('Enhanced_Category')['Amount'].sum(): rows whose key is NaN are dropped
GroupByCategory(df) ==
    LET keys == {df[i].Enhanced_Category : i \in 1..Len(df)} \ {NaN}
    IN  [k \in keys |->
            LET InGroup(row) == row.Enhanced_Category = k
            IN  SumAmount(SelectSeq(df, InGroup))]

\* expenses.groupby('Description')['Amount'].sum().sort_values(ascending=False):
\* one entry per description (rows whose description is NaN are dropped), by descending
\* sum.  groupby hands the groups over ordered by key, not by the rows of the frame,
\* and the sort is the default quicksort, which is not stable: entries of equal sum
\* come out in an order the sort implementation decides.  The outcomes are all the
\* descending arrangements of the entries.
merchant_spending(df) ==
    LET expenses == Expenses(df)
        keys == {expenses[i].Description : i \in 1..Len(expenses)} \ {NaNText}
        Total(k) == LET InGroup(row) == row.Description = k
                    IN  SumAmount(SelectSeq(expenses, InGroup))
        n == Cardinality(keys)
    IN  { [i \in 1..n |-> [Description |-> order[i], Amount |-> Total(order[i])]] :
            order \in { o \in [1..n -> keys] :
                          /\ \A i, j \in 1..n : i # j => o[i] # o[j]
                          /\ \A i, j \in 1..n : i < j => Total(o[i]) >= Total(o[j]) } }

\* the number of merchants shown: head(10)
TopN == 10

\* series.head(n)
head(series, n) == SubSeq(series, 1, IF Len(series) < n THEN Len(series) ELSE n)

NoResult == [status |-> "none"]

\* spending_insights (CLI): totals and net by category
spending_insights(df) ==
    LET total_spent == SumAmount(Expenses(df))
        total_credits == Abs(SumAmount(IncomeExcludingMarkers(df)))
    IN  [ status |-> "ok", by |-> "spending_insights",
          total_expenses |-> total_spent,
          total_income |-> total_credits,
          net_spending |-> total_spent - total_credits,
          category_net |-> GroupByCategory(df) ]

\* calculate_basic_metrics (web); on a frame without rows min() of the dates is NaT,
\* NaT.strftime raises, the exception is caught and None is returned
calculate_basic_metrics(df) ==
    LET total_expenses == SumAmount(Expenses(df))
        total_income == Abs(SumAmount(IncomeExcludingMarkers(df)))
    IN  IF df = <<>> THEN NoResult
        ELSE [ status |-> "ok", by |-> "calculate_basic_metrics",
               total_expenses |-> total_expenses,
               total_income |-> total_income,
               net_spending |-> total_expenses - total_income,
               category_net |-> GroupByCategory(df) ]

\* calculate_spending_insights (web): the totals; its category breakdown is of expenses
calculate_spending_insights(df) ==
    LET total_expenses == SumAmount(Expenses(df))
        total_income == Abs(SumAmount(IncomeExcludingMarkers(df)))
    IN  [ status |-> "ok", by |-> "calculate_spending_insights",
          total_expenses |-> total_expenses,
          total_income |-> total_income,
          net_spending |-> total_expenses - total_income,
          category_net |-> GroupByCategory(Expenses(df)) ]

\* generate_financial_summary (web report); None when the window leaves no row
generate_financial_summary(df, date_range) ==
    LET df_filtered == IF date_range = None THEN df
                       ELSE DateFilter(df, <<date_range[1]>>, <<date_range[2]>>)
        total_expenses == SumAmount(Expenses(df_filtered))
        total_income == Abs(SumAmount(Negatives(df_filtered)))
    IN  IF df_filtered = <<>> THEN NoResult
        ELSE [ status |-> "ok", by |-> "generate_financial_summary",
               total_expenses |-> total_expenses,
               total_income |-> total_income,
               net_spending |-> total_expenses - total_income,
               category_net |-> GroupByCategory(df_filtered) ]

-----------------------------------------------------------------------------
(* Inputs *)

PaymentDescription == <<"I", "n", "t", "e", "r", "n", "e", "t", " ", "P", "a", "y", "m", "e", "n", "t", " ", "-", " ", "T", "h", "a", "n", "k", " ", "Y", "o", "u">>

DinerDescription == <<"L", "O", "C", "A", "L", " ", "D", "I", "N", "E", "R">>

ParkingDescription == <<"P", "A", "R", "K", "I", "N", "G", " ", "M", "E", "T", "E", "R">>

DirectpayNote == <<"d", "i", "r", "e", "c", "t", "p", "a", "y", " ", "r", "e", "f", "u", "n", "d">>

\* description and Category of the rows of the card file
CardLabels ==
    { [Description |-> PaymentDescription, Category |-> "Payments and Credits"],
      [Description |-> DinerDescription, Category |-> "Restaurants"],
      [Description |-> ParkingDescription, Category |-> NaN] }

CardAmounts == {-20, 50}

CardRows ==
    { [TransDate |-> d, Description |-> l.Description, Amount |-> a,
       Category |-> l.Category] : d \in Days, l \in CardLabels, a \in CardAmounts }

\* the card file has at least one row
CardFiles == UNION { [1..n -> CardRows] : n \in 1..MaxRows }

VenmoAmounts == {-30, 30}

VenmoNotes == {NaNText, DirectpayNote}

\* a Venmo payment is from the owner to someone else or from someone else to the owner
VenmoRows ==
    { [Datetime |-> d, Note |-> n, To |-> t, Amount_Clean |-> a,
       From |-> IF t = OwnerName THEN FriendName ELSE OwnerName]
      : d \in Days, n \in VenmoNotes, t \in {OwnerName, FriendName}, a \in VenmoAmounts }

\* statements of at most n rows; the ID of a row is its position
VenmoStatements(n) ==
    UNION { { [i \in 1..k |-> [ID |-> i] @@ s[i]] : s \in [1..k -> VenmoRows] }
            : k \in 0..n }

\* progress stores: no transaction categorized yet, or all of them
Stores(statement) ==
    { [id \in S |-> [category |-> "Income/Reimbursement"]]
      : S \in {{}, {statement[i].ID : i \in 1..Len(statement)}} }

DateArgs == {None} \cup { <<d>> : d \in Days }

DateRanges == {None} \cup { <<a, b>> : a \in Days, b \in Days }

NoFile == [exists |-> FALSE, rows |-> <<>>]

NoRow == [kind |-> "none"]

NoRowResult == [fn |-> "none"]

NoBudget == [fn |-> "none"]

\* the session state show_venmo_categorizer initializes (lines 183-188)
NoSession ==
    [venmo_transactions |-> <<>>, current_transaction_index |-> 0,
     categorization_mode |-> FALSE]

\* VenmoCategorizer not started
NoRun == [at |-> "none"]

-----------------------------------------------------------------------------
(* The pipeline *)

Init ==
    /\ cardFile \in CardFiles
    /\ venmoNative \in VenmoStatements(MaxRows - Len(cardFile))
    /\ categorized_data \in Stores(venmoNative)
    /\ venmoFile = NoFile
    /\ path = "none"
    /\ discoverOut = <<>>
    /\ venmoOut = <<>>
    /\ ledger = <<>>
    /\ events = <<>>
    /\ pc = "start"
    /\ metrics = NoResult
    /\ insights = NoResult
    /\ rowIn = NoRow
    /\ rowOut = NoRowResult
    /\ window = <<>>
    /\ budgetIn = NoBudget
    /\ budgetOut = NoBudget
    /\ session = NoSession
    /\ categorizer = NoRun

\* venmo_categorizer.main: categorize_transactions ends with export_final_data(df);
\* nothing is exported when the statement has no payment row
ExportFinalData ==
    /\ pc = "start"
    /\ ~venmoFile.exists
    /\ venmoNative # <<>>
    /\ venmoFile' = [exists |-> TRUE,
                     rows |-> export_final_data(venmoNative, categorized_data)]
    /\ UNCHANGED <<cardFile, venmoNative, categorized_data, path, discoverOut,
                   venmoOut, ledger, events, pc, metrics, insights, rowIn, rowOut,
                   window, budgetIn, budgetOut, session, categorizer>>

\* finance_analyzer.main line 483: df = load_and_clean_data(csv, start, end, include_venmo)
LoadAndCleanData ==
    /\ pc = "start"
    /\ \E start_date \in DateArgs, end_date \in DateArgs, include_venmo \in BOOLEAN :
        \E r \in load_and_clean_data(cardFile, venmoFile, start_date, end_date,
                                      include_venmo) :
            /\ pc' = IF r.status = "ok" THEN "loaded" ELSE "error"
            /\ window' = <<start_date, end_date>>
            /\ ledger' = r.df
            /\ discoverOut' = r.discover
            /\ venmoOut' = r.venmo
            /\ events' = r.events
    /\ path' = "cli"
    /\ UNCHANGED <<cardFile, venmoNative, categorized_data, venmoFile, metrics,
                   insights, rowIn, rowOut, budgetIn, budgetOut, session, categorizer>>

\* finance_analyzer.main lines 485-494: nothing for an empty frame; categorize when the
\* frame has no Enhanced_Category column; spending_insights
SpendingInsights ==
    /\ pc = "loaded"
    /\ path = "cli"
    /\ Len(ledger) > 0
    /\ LET df == IF "Enhanced_Category" \in DOMAIN ledger[1]
                 THEN ledger
                 ELSE enhanced_categorization(ledger)
       IN  /\ ledger' = df
           /\ insights' = spending_insights(df)
           /\ events' = IF df = ledger THEN events ELSE events \o <<"categorize">>
    /\ pc' = "analyzed"
    /\ UNCHANGED <<cardFile, venmoNative, categorized_data, venmoFile, path,
                   discoverOut, venmoOut, metrics, rowIn, rowOut,
                   window, budgetIn, budgetOut, session, categorizer>>

\* app.show_upload_page, the Process & Combine button (lines 499-531)
ProcessAndCombine ==
    /\ pc = "start"
    /\ \E start_date \in DateArgs, end_date \in DateArgs, uploaded \in BOOLEAN :
        LET processed_discover == process_discover_data(cardFile, start_date, end_date)
            has_venmo == uploaded /\ venmoFile.exists
            processed_venmo == IF has_venmo
                               THEN process_venmo_data(venmoFile.rows, start_date, end_date)
                               ELSE <<>>
        IN  /\ window' = <<start_date, end_date>>
            /\ IF processed_discover.status = "error"
               THEN /\ pc' = "error"
                    /\ events' = <<"card_adapter">>
                    /\ UNCHANGED <<ledger, discoverOut, venmoOut, metrics>>
               ELSE \E combined_df \in combine_datasets(processed_discover.df,
                                                        processed_venmo) :
                    /\ pc' = "loaded"
                    /\ ledger' = combined_df
                    /\ discoverOut' = processed_discover.df
                    /\ venmoOut' = processed_venmo
                    /\ metrics' = calculate_basic_metrics(combined_df)
                    /\ events' = <<"card_adapter", "categorize", "payment_filter">>
                                 \o (IF has_venmo THEN <<"venmo_adapter">> ELSE <<>>)
                                 \o (IF processed_venmo # <<>> THEN <<"merge">> ELSE <<>>)
    /\ path' = "web"
    /\ UNCHANGED <<cardFile, venmoNative, categorized_data, venmoFile, insights,
                   rowIn, rowOut, budgetIn, budgetOut, session, categorizer>>

\* insights.show_spending_insights(df): calculate_spending_insights on the session frame
ShowSpendingInsights ==
    /\ pc = "loaded"
    /\ path = "web"
    /\ Len(ledger) > 0
    /\ insights' = calculate_spending_insights(ledger)
    /\ pc' = "analyzed"
    /\ UNCHANGED <<cardFile, venmoNative, categorized_data, venmoFile, path,
                   discoverOut, venmoOut, ledger, events, metrics, rowIn, rowOut,
                   window, budgetIn, budgetOut, session, categorizer>>

\* report_generator.show_report_generator, the preview button:
\* generate_financial_summary(df, date_range)
GenerateReportPreview ==
    /\ pc = "loaded"
    /\ path = "web"
    /\ Len(ledger) > 0
    /\ \E date_range \in DateRanges :
        insights' = generate_financial_summary(ledger, date_range)
    /\ pc' = "analyzed"
    /\ UNCHANGED <<cardFile, venmoNative, categorized_data, venmoFile, path,
                   discoverOut, venmoOut, ledger, events, metrics, rowIn, rowOut,
                   window, budgetIn, budgetOut, session, categorizer>>

Next ==
    \/ ExportFinalData
    \/ LoadAndCleanData
    \/ SpendingInsights
    \/ ProcessAndCombine
    \/ ShowSpendingInsights
    \/ GenerateReportPreview

Spec == Init /\ [][Next]_vars

-----------------------------------------------------------------------------
(* The row functions on their own: one input row, one function applied *)

\* amounts of the rows, in steps of ten from -10 * MaxAmount to 10 * MaxAmount
MaxAmount == 3

RowAmounts == { 10 * a : a \in (-MaxAmount)..MaxAmount }

DirectpayDescription == <<"D", "I", "R", "E", "C", "T", "P", "A", "Y", " ", "F", "U", "L", "L", " ", "B", "A", "L", "A", "N", "C", "E">>

\* descriptions with characters outside ASCII: long s and ligatures in keywords,
\* dotless i, dotted capital I and y with ring above in 'DIRECTPAY', sharp s
NonAsciiDescriptions ==
    { <<LongS, "t", "a", "r", "b", "u", "c", "k", "s">>,
      <<LigatureSt, "a", "r", "b", "u", "c", "k", "s">>,
      <<"c", "o", LigatureFf, "e", "e">>,
      <<"c", "h", "i", "c", "k", "-", LigatureFi, "l", "-", "a">>,
      <<"D", DotlessI, "R", "E", "C", "T", "P", "A", "Y">>,
      <<"D", DottedCapitalI, "R", "E", "C", "T", "P", "A", "Y">>,
      <<"d", "i", "r", "e", "c", "t", "p", "a", SmallYRingAbove>>,
      <<"S", "T", "R", "A", SharpS, "E", " ", "C", "A", "F", SmallEAcute>> }

\* the descriptions of the card rows; an empty cell of the file is NaN
RowDescriptions ==
    CatDescriptions \cup {PaymentDescription, DirectpayDescription, ParkingDescription}
        \cup NonAsciiDescriptions \cup {NaNText}

CardRowInputs ==
    { [kind |-> "card", TransDate |-> 1, Description |-> d, Category |-> c, Amount |-> a]
      : d \in RowDescriptions, c \in SourceCategories, a \in RowAmounts }

VenmoRowInputs ==
    { [kind |-> "venmo", ID |-> 1, Datetime |-> 1, Note |-> n, To |-> t,
       Amount_Clean |-> a, From |-> IF t = OwnerName THEN FriendName ELSE OwnerName]
      : n \in VenmoNotes, t \in {OwnerName, FriendName}, a \in RowAmounts }

InitRow ==
    /\ rowIn \in CardRowInputs \cup VenmoRowInputs
    /\ rowOut = NoRowResult
    /\ cardFile = <<>>
    /\ venmoNative = <<>>
    /\ categorized_data = <<>>
    /\ venmoFile = NoFile
    /\ path = "none"
    /\ discoverOut = <<>>
    /\ venmoOut = <<>>
    /\ ledger = <<>>
    /\ events = <<>>
    /\ pc = "row"
    /\ metrics = NoResult
    /\ insights = NoResult
    /\ window = <<>>
    /\ budgetIn = NoBudget
    /\ budgetOut = NoBudget
    /\ session = NoSession
    /\ categorizer = NoRun

\* enhanced_categorization: categorize_enhanced applied to the row
ApplyCategorizeEnhanced ==
    /\ rowIn.kind = "card"
    /\ rowOut = NoRowResult
    /\ rowOut' = [fn |-> "categorize_enhanced", value |-> categorize_enhanced(rowIn)]
    /\ UNCHANGED <<pipelineVars, rowIn>>

\* load_and_clean_data: classify_transaction applied to the row
ApplyClassifyTransaction ==
    /\ rowIn.kind = "card"
    /\ rowOut = NoRowResult
    /\ rowOut' = [fn |-> "classify_transaction", value |-> classify_transaction(rowIn)]
    /\ UNCHANGED <<pipelineVars, rowIn>>

\* process_discover_data: classify_transaction applied to the row
ApplyClassifyTransactionWeb ==
    /\ rowIn.kind = "card"
    /\ rowOut = NoRowResult
    /\ rowOut' = [fn |-> "classify_transaction_web",
                  value |-> classify_transaction_web(rowIn)]
    /\ UNCHANGED <<pipelineVars, rowIn>>

\* export_final_data: the row of the categorized file written for the transaction
ApplyExportRow ==
    /\ rowIn.kind = "venmo"
    /\ rowOut = NoRowResult
    /\ \E store \in Stores(<<rowIn>>) :
        rowOut' = [fn |-> "export_row", value |-> export_row(rowIn, store)]
    /\ UNCHANGED <<pipelineVars, rowIn>>

\* load_venmo_data: the row of the categorized file converted
ApplyVenmoRow ==
    /\ rowOut.fn = "export_row"
    /\ rowOut' = [fn |-> "venmo_row", file |-> rowOut.value,
                  value |-> venmo_row(rowOut.value)]
    /\ UNCHANGED <<pipelineVars, rowIn>>

\* process_venmo_data: the row of the categorized file converted
ApplyVenmoRowWeb ==
    /\ rowOut.fn = "export_row"
    /\ rowOut' = [fn |-> "venmo_row_web", file |-> rowOut.value,
                  value |-> venmo_row_web(rowOut.value)]
    /\ UNCHANGED <<pipelineVars, rowIn>>

\* process_discover_data on a card file that holds the row alone
ApplyProcessDiscoverData ==
    /\ rowIn.kind = "card"
    /\ rowOut = NoRowResult
    /\ rowOut' = [fn |-> "process_discover_data",
                  value |-> process_discover_data(
                                <<Restrict(rowIn, DOMAIN rowIn \ {"kind"})>>, None, None)]
    /\ UNCHANGED <<pipelineVars, rowIn>>

\* load_venmo_data of debug_credits.py: the row of the categorized file converted
ApplyVenmoRowDebug ==
    /\ rowOut.fn = "export_row"
    /\ rowOut' = [fn |-> "venmo_row_debug", file |-> rowOut.value,
                  value |-> venmo_row_debug(rowOut.value)]
    /\ UNCHANGED <<pipelineVars, rowIn>>

NextRow ==
    \/ ApplyCategorizeEnhanced
    \/ ApplyClassifyTransaction
    \/ ApplyClassifyTransactionWeb
    \/ ApplyExportRow
    \/ ApplyVenmoRow
    \/ ApplyVenmoRowWeb
    \/ ApplyVenmoRowDebug
    \/ ApplyProcessDiscoverData

SpecRow == InitRow /\ [][NextRow]_vars

-----------------------------------------------------------------------------
(* The aggregations on their own: one ledger, one aggregation applied.  The    *)
(* ledgers are the frames load_and_clean_data returns for a card file when no *)
(* peer-payment data is integrated, categorized as main does.                 *)

AggLedgers ==
    { enhanced_categorization(r.df) :
        r \in UNION { load_and_clean_data(csv, NoFile, None, None, FALSE)
                      : csv \in CardFiles } }

InitAgg ==
    /\ ledger \in AggLedgers
    /\ insights = NoResult
    /\ metrics = NoResult
    /\ pc = "ledger"
    /\ cardFile = <<>>
    /\ venmoNative = <<>>
    /\ categorized_data = <<>>
    /\ venmoFile = NoFile
    /\ path = "none"
    /\ discoverOut = <<>>
    /\ venmoOut = <<>>
    /\ events = <<>>
    /\ rowIn = NoRow
    /\ rowOut = NoRowResult
    /\ window = <<>>
    /\ budgetIn = NoBudget
    /\ budgetOut = NoBudget
    /\ session = NoSession
    /\ categorizer = NoRun

CallSpendingInsights ==
    /\ pc = "ledger"
    /\ insights' = spending_insights(ledger)
    /\ pc' = "aggregated"
    /\ UNCHANGED <<cardFile, venmoNative, categorized_data, venmoFile, path,
                   discoverOut, venmoOut, ledger, events, metrics, rowIn, rowOut,
                   window, budgetIn, budgetOut, session, categorizer>>

CallCalculateBasicMetrics ==
    /\ pc = "ledger"
    /\ insights' = calculate_basic_metrics(ledger)
    /\ pc' = "aggregated"
    /\ UNCHANGED <<cardFile, venmoNative, categorized_data, venmoFile, path,
                   discoverOut, venmoOut, ledger, events, metrics, rowIn, rowOut,
                   window, budgetIn, budgetOut, session, categorizer>>

CallCalculateSpendingInsights ==
    /\ pc = "ledger"
    /\ insights' = calculate_spending_insights(ledger)
    /\ pc' = "aggregated"
    /\ UNCHANGED <<cardFile, venmoNative, categorized_data, venmoFile, path,
                   discoverOut, venmoOut, ledger, events, metrics, rowIn, rowOut,
                   window, budgetIn, budgetOut, session, categorizer>>

CallGenerateFinancialSummary ==
    /\ pc = "ledger"
    /\ \E date_range \in DateRanges :
        insights' = generate_financial_summary(ledger, date_range)
    /\ pc' = "aggregated"
    /\ UNCHANGED <<cardFile, venmoNative, categorized_data, venmoFile, path,
                   discoverOut, venmoOut, ledger, events, metrics, rowIn, rowOut,
                   window, budgetIn, budgetOut, session, categorizer>>

\* export_analysis_report and generate_financial_summary: the top merchants
CallTopMerchants ==
    /\ pc = "ledger"
    /\ \E ranking \in merchant_spending(ledger) :
        insights' = [status |-> "ranked", by |-> "top_merchants",
                     top_merchants |-> head(ranking, TopN)]
    /\ pc' = "aggregated"
    /\ UNCHANGED <<cardFile, venmoNative, categorized_data, venmoFile, path,
                   discoverOut, venmoOut, ledger, events, metrics, rowIn, rowOut,
                   window, budgetIn, budgetOut, session, categorizer>>

NextAgg ==
    \/ CallSpendingInsights
    \/ CallCalculateBasicMetrics
    \/ CallCalculateSpendingInsights
    \/ CallGenerateFinancialSummary
    \/ CallTopMerchants

SpecAgg == InitAgg /\ [][NextAgg]_vars

-----------------------------------------------------------------------------
(* The entry points on small files: a card file of payments and restaurant    *)
(* purchases, a peer-payment statement, and every date window.                *)

WindowCardRows ==
    { [TransDate |-> d, Description |-> l.Description, Amount |-> l.Amount,
       Category |-> l.Category]
      : d \in Days,
        l \in { [Description |-> PaymentDescription, Amount |-> -20,
                 Category |-> "Payments and Credits"],
                [Description |-> DinerDescription, Amount |-> 50,
                 Category |-> "Restaurants"] } }

WindowVenmoRows ==
    { [Datetime |-> d, Note |-> l.Note, To |-> l.To, Amount_Clean |-> 30,
       From |-> IF l.To = OwnerName THEN FriendName ELSE OwnerName]
      : d \in Days,
        l \in { [Note |-> DirectpayNote, To |-> OwnerName],
                [Note |-> NaNText, To |-> FriendName] } }

InitWindow ==
    /\ cardFile \in UNION { [1..n -> WindowCardRows] : n \in 1..MaxRows }
    /\ venmoNative \in
         UNION { { [i \in 1..k |-> [ID |-> i] @@ st[i]] : st \in [1..k -> WindowVenmoRows] }
                 : k \in 0..(MaxRows - Len(cardFile)) }
    /\ categorized_data = <<>>
    /\ venmoFile = NoFile
    /\ path = "none"
    /\ discoverOut = <<>>
    /\ venmoOut = <<>>
    /\ ledger = <<>>
    /\ events = <<>>
    /\ pc = "start"
    /\ metrics = NoResult
    /\ insights = NoResult
    /\ rowIn = NoRow
    /\ rowOut = NoRowResult
    /\ window = <<>>
    /\ budgetIn = NoBudget
    /\ budgetOut = NoBudget
    /\ session = NoSession
    /\ categorizer = NoRun

NextWindow ==
    \/ ExportFinalData
    \/ LoadAndCleanData
    \/ ProcessAndCombine

SpecWindow == InitWindow /\ [][NextWindow]_vars

-----------------------------------------------------------------------------
(* Budget projector: internship_analysis and create_burndown_chart_with_rent   *)
(* (finance_analyzer.py), calculate_internship_metrics (web_app).  Dates are   *)
(* day numbers; today is an input (datetime.now().date() in the code).         *)
(* Amounts of the ledger are whole numbers, and so are their sums and          *)
(* differences, which float arithmetic gives exactly: they stay integers.      *)
(* Every other figure is a float, computed operation by operation as the code  *)
(* computes it.                                                                *)

\* A natural number of any size is a sequence of limbs, each in 0..2^15-1, the
\* least significant first and the last one not 0; <<>> is 0.
LimbBase == 2^15

RECURSIVE BTrim(_)
BTrim(x) ==
    IF x = <<>> THEN <<>>
    ELSE IF x[Len(x)] = 0 THEN BTrim(SubSeq(x, 1, Len(x) - 1))
    ELSE x

\* the natural number n, below 2^31
BFromInt(n) ==
    BTrim(<<n % LimbBase, (n \div LimbBase) % LimbBase,
            n \div (LimbBase * LimbBase)>>)

RECURSIVE BAddC(_, _, _)
BAddC(x, y, c) ==
    IF x = <<>> /\ y = <<>> THEN (IF c = 0 THEN <<>> ELSE <<c>>)
    ELSE LET a == IF x = <<>> THEN 0 ELSE Head(x)
             b == IF y = <<>> THEN 0 ELSE Head(y)
             t == a + b + c
         IN  <<t % LimbBase>>
             \o BAddC(IF x = <<>> THEN <<>> ELSE Tail(x),
                      IF y = <<>> THEN <<>> ELSE Tail(y), t \div LimbBase)

BAdd(x, y) == BAddC(x, y, 0)

RECURSIVE BSubB(_, _, _)
BSubB(x, y, b) ==
    IF x = <<>> THEN <<>>
    ELSE LET t == Head(x) - (IF y = <<>> THEN 0 ELSE Head(y)) - b
         IN  <<IF t < 0 THEN t + LimbBase ELSE t>>
             \o BSubB(Tail(x), IF y = <<>> THEN <<>> ELSE Tail(y),
                      IF t < 0 THEN 1 ELSE 0)

\* x - y for x >= y
BSub(x, y) == BTrim(BSubB(x, y, 0))

\* -1, 0 or 1 as x is below, equal to or above y
BCmp(x, y) ==
    IF Len(x) # Len(y) THEN (IF Len(x) < Len(y) THEN -1 ELSE 1)
    ELSE LET differ == { i \in 1..Len(x) : x[i] # y[i] }
         IN  IF differ = {} THEN 0
             ELSE LET i == CHOOSE j \in differ : \A o \in differ : o <= j
                  IN  IF x[i] < y[i] THEN -1 ELSE 1

RECURSIVE BMulC(_, _, _)
BMulC(x, k, c) ==
    IF x = <<>> THEN (IF c = 0 THEN <<>> ELSE <<c>>)
    ELSE LET t == Head(x) * k + c
         IN  <<t % LimbBase>> \o BMulC(Tail(x), k, t \div LimbBase)

\* x * k for 0 <= k <= 2^15
BMulS(x, k) == BTrim(BMulC(x, k, 0))

RECURSIVE BMul(_, _)
BMul(x, y) ==
    IF x = <<>> \/ y = <<>> THEN <<>>
    ELSE BAdd(BMulS(x, Head(y)),
              LET rest == BMul(x, Tail(y))
              IN  IF rest = <<>> THEN <<>> ELSE <<0>> \o rest)

\* the number of bits of x
BBits(x) ==
    IF x = <<>> THEN 0
    ELSE 15 * (Len(x) - 1)
         + (CHOOSE b \in 1..15 : 2^(b - 1) <= x[Len(x)] /\ x[Len(x)] < 2^b)

\* x * 2^n
BShl(x, n) ==
    IF x = <<>> THEN <<>>
    ELSE [i \in 1..(n \div 15) |-> 0] \o BMulS(x, 2^(n % 15))

\* x \div 2^n
BShr(x, n) ==
    LET high == SubSeq(x, (n \div 15) + 1, Len(x))
        k == n % 15
    IN  BTrim([i \in 1..Len(high) |->
                  (high[i] \div 2^k)
                  + (IF i < Len(high) THEN (high[i + 1] % 2^k) * 2^(15 - k) ELSE 0)])

\* x % 2^n = 0
BLowZero(x, n) ==
    /\ \A i \in 1..(n \div 15) : i <= Len(x) => x[i] = 0
    /\ (n \div 15) + 1 <= Len(x) => x[(n \div 15) + 1] % 2^(n % 15) = 0

\* bit i of x, bit 0 the lowest
BBit(x, i) ==
    IF (i \div 15) + 1 > Len(x) THEN 0
    ELSE (x[(i \div 15) + 1] \div 2^(i % 15)) % 2

\* A float (IEEE 754 binary64, as Python's float and numpy's float64) is 0 or
\* sign * m * 2^e with m of exactly 53 bits; every operation rounds its exact result
\* to the nearest such number, to the one with the even m in a tie.  Exponents
\* are not bounded: no overflow to inf and no subnormal numbers, which amounts of
\* money do not reach.
FloatZero == [sign |-> 1, m |-> <<>>, e |-> 0]

\* sign * r * 2^e for r of 53 bits, or of 54 bits when rounding up has carried
\* into 2^53
FNormal(sign, r, e) ==
    IF BBits(r) = 54 THEN [sign |-> sign, m |-> BShr(r, 1), e |-> e + 1]
    ELSE [sign |-> sign, m |-> r, e |-> e]

\* m with its n lowest bits rounded away, q being m \div 2^n: up when the bits
\* dropped are more than half of the last bit kept, or are half of it and q is odd
FRoundTo(sign, m, e, sticky, n, q) ==
    FNormal(sign,
            IF /\ BBit(m, n - 1) = 1
               /\ (sticky \/ ~BLowZero(m, n - 1) \/ BBit(q, 0) = 1)
            THEN BAdd(q, <<1>>) ELSE q,
            e + n)

\* m brought to 53 bits, n being the number of bits it has beyond 53
FRoundBits(sign, m, e, sticky, n) ==
    IF n <= 0 THEN [sign |-> sign, m |-> BShl(m, -n), e |-> e + n]
    ELSE FRoundTo(sign, m, e, sticky, n, BShr(m, n))

\* the float nearest to sign * (m + t) * 2^e, where 0 < t < 1 if sticky and t = 0
\* if not; m has 55 bits or more when sticky
FRound(sign, m, e, sticky) ==
    IF m = <<>> THEN FloatZero
    ELSE FRoundBits(sign, m, e, sticky, BBits(m) - 53)

\* float(n) for an integer n, -2^31 < n < 2^31
Float(n) == FRound(IF n < 0 THEN -1 ELSE 1, BFromInt(IF n < 0 THEN -n ELSE n), 0, FALSE)

FNeg(a) == IF a.m = <<>> THEN a ELSE [a EXCEPT !.sign = -a.sign]

\* a == b
FEq(a, b) == a = b

\* a < b
FLt(a, b) ==
    LET Below(x, y) == \* |x| < |y| for x, y other than 0
            x.e < y.e \/ (x.e = y.e /\ BCmp(x.m, y.m) < 0)
    IN  IF a.m = <<>> THEN b.m # <<>> /\ b.sign = 1
        ELSE IF b.m = <<>> THEN a.sign = -1
        ELSE IF a.sign # b.sign THEN a.sign = -1
        ELSE IF a.sign = 1 THEN Below(a, b)
        ELSE Below(b, a)

\* sign_x * x * 2^e + sign_y * y * 2^e
FAddAligned(sign_x, x, sign_y, y, e) ==
    IF sign_x = sign_y THEN FRound(sign_x, BAdd(x, y), e, FALSE)
    ELSE IF BCmp(x, y) = 0 THEN FloatZero
    ELSE IF BCmp(x, y) > 0 THEN FRound(sign_x, BSub(x, y), e, FALSE)
    ELSE FRound(sign_y, BSub(y, x), e, FALSE)

\* a + b for a.e >= b.e; beyond 60 bits apart the smaller one is rounded away
FAddOrdered(a, b) ==
    IF a.e - b.e > 60 THEN a
    ELSE FAddAligned(a.sign, BShl(a.m, a.e - b.e), b.sign, b.m, b.e)

\* a + b
FAdd(a, b) ==
    IF a.m = <<>> THEN b
    ELSE IF b.m = <<>> THEN a
    ELSE IF a.e >= b.e THEN FAddOrdered(a, b)
    ELSE FAddOrdered(b, a)

\* a - b
FSub(a, b) == FAdd(a, FNeg(b))

\* a * b
FMul(a, b) ==
    IF a.m = <<>> \/ b.m = <<>> THEN FloatZero
    ELSE FRound(a.sign * b.sign, BMul(a.m, b.m), a.e + b.e, FALSE)

\* limb i of x, 0 beyond its length
BLimb(x, i) == IF i <= Len(x) THEN x[i] ELSE 0

\* r \div y from an estimate qh that is the quotient or above it by at most 2
BDigitFrom(r, y, qh) ==
    IF BCmp(BMulS(y, qh), r) <= 0 THEN qh
    ELSE IF BCmp(BMulS(y, qh - 1), r) <= 0 THEN qh - 1
    ELSE qh - 2

\* r \div y for r < y * 2^15 and y with a top limb of 2^14 or more: the estimate
\* is the quotient of the top limbs, one limb at most
BDigitTop(r, y, top) ==
    BDigitFrom(r, y, IF top < LimbBase - 1 THEN top ELSE LimbBase - 1)

BDigit(r, y) ==
    BDigitTop(r, y, (BLimb(r, Len(y) + 1) * LimbBase + BLimb(r, Len(y))) \div y[Len(y)])

\* the long division of r * 2^(15 * n) by y, limb by limb, for r and y as in
\* BDigit: q holds the n + 1 limbs of the quotient, r is the remainder
RECURSIVE BLongDiv(_, _, _)

\* the limb d before the limbs that follow it
BLongDivPush(d, rest) == [q |-> rest.q \o <<d>>, r |-> rest.r]

\* the division goes on with what d leaves of r
BLongDivLeft(left, y, n, d) ==
    IF n = 0 THEN [q |-> <<d>>, r |-> left]
    ELSE BLongDivPush(d, BLongDiv(IF left = <<>> THEN <<>> ELSE <<0>> \o left, y, n - 1))

BLongDivStep(r, y, n, d) == BLongDivLeft(BSub(r, BMulS(y, d)), y, n, d)

BLongDiv(r, y, n) == BLongDivStep(r, y, n, BDigit(r, y))

\* the float nearest to sign * (d.q + t) * 2^e, t below 1 and 0 when d.r is 0
FQuotient(sign, d, e) == FRound(sign, BTrim(d.q), e, d.r # <<>>)

\* a / b for b other than 0
FDiv(a, b) ==
    IF a.m = <<>> THEN FloatZero
    ELSE FQuotient(a.sign * b.sign, BLongDiv(BShl(a.m, 7), BShl(b.m, 7), 4),
                   a.e - b.e - 60)

\* a * k for an integer k
FTimes(a, k) == FMul(a, Float(k))

\* a / k for an integer k other than 0
FOver(a, k) == FDiv(a, Float(k))

\* n / d on integers, d other than 0
Frac(n, d) == FDiv(Float(n), Float(d))

\* what a numpy float division by zero gives: no exception, inf or nan
FloatInf == [special |-> "inf"]

FloatNegInf == [special |-> "-inf"]

FloatNaN == [special |-> "nan"]

\* x / k with x a numpy float64: inf, -inf or nan when k is 0
NumpyDivide(x, k) ==
    IF k # 0 THEN FOver(x, k)
    ELSE IF FLt(FloatZero, x) THEN FloatInf
    ELSE IF FLt(x, FloatZero) THEN FloatNegInf
    ELSE FloatNaN

\* abs of a numpy float64
NumpyAbs(x) ==
    IF "special" \in DOMAIN x
    THEN (IF x = FloatNaN THEN FloatNaN ELSE FloatInf)
    ELSE [x EXCEPT !.sign = 1]

Max(a, b) == IF a >= b THEN a ELSE b

Min(a, b) == IF a <= b THEN a ELSE b

\* Description.str.contains('NASAAMESEXCHANGEL', case=False, na=False)
RentPayment(row) == ContainsIgnoreCase(row.Description, HousingProvider)

\* the rent keywords of calculate_internship_metrics
RentKeywords ==
    { <<"N", "A", "S", "A">>, HousingProvider,
      <<"A", "M", "E", "S", " ", "E", "X", "C", "H", "A", "N", "G", "E", " ", "L", "O", "D", "G", "E">> }

\* Description.str.contains('|'.join(rent_keywords), case=False, na=False)
rent_mask(row) == \E k \in RentKeywords : ContainsIgnoreCase(row.Description, k)

\* create_burndown_chart_with_rent: the daily rent and the running total of the day
\* today (nothing is accumulated when today is before the first day of the chart)
create_burndown_chart_with_rent(df, spending_start_date, income_start_date, income_end_date, net_income, total_rent, today) ==
    LET total_internship_days == income_end_date - income_start_date + 1
        daily_rent == Frac(total_rent, total_internship_days)
        Kept(row) == /\ ~(row.Amount < 0 /\ StrContainsMarker(row.Description))
                     /\ ~(row.Amount > 0 /\ RentPayment(row))
                     /\ row.TransDate >= spending_start_date
                     /\ row.TransDate <= today
        OnDay(d) == LET P(row) == Kept(row) /\ row.TransDate = d
                    IN  SumAmount(SelectSeq(df, P))
        \* the loop of lines 791-804: the spending of the day is added, then
        \* the rent of the day
        running_total[d \in (spending_start_date - 1)..today] ==
            IF d < spending_start_date THEN FloatZero
            ELSE LET spent == FAdd(running_total[d - 1], Float(OnDay(d)))
                 IN  IF d >= income_start_date THEN FAdd(spent, daily_rent)
                     ELSE spent
    IN  IF total_internship_days = 0 THEN [status |-> "error"]
        \* max() of an empty sequence: no day in the chart (line 863), or no day
        \* of the chart up to today (line 875)
        ELSE IF income_end_date < spending_start_date \/ today < spending_start_date
        THEN [status |-> "error"]
        ELSE [ status |-> "ok",
               daily_rent |-> daily_rent,
               running_total |-> running_total[today] ]

\* category_net of internship_analysis (lines 668-683): Amount summed by
\* Enhanced_Category over the rows that are no rent payment (groupby drops the rows
\* of category NaN), the rent allocated so far added to 'Housing'
category_net(df, allocated_rent_so_far) ==
    LET NoActualRent(row) == ~(row.Amount > 0 /\ RentPayment(row))
        df_no_actual_rent == SelectSeq(df, NoActualRent)
        keys == { df_no_actual_rent[i].Enhanced_Category :
                    i \in 1..Len(df_no_actual_rent) } \ {NaN}
        InCategory(c) == LET P(row) == row.Enhanced_Category = c
                         IN  SelectSeq(df_no_actual_rent, P)
    IN  [ c \in keys \cup {"Housing"} |->
            IF c = "Housing"
            THEN FAdd(Float(SumAmount(InCategory(c))), allocated_rent_so_far)
            ELSE Float(SumAmount(InCategory(c))) ]

\* the value the name net_income holds at the return of internship_analysis: the
\* loop `for category, net_income in revenue_cats.items()` (lines 754-755) rebinds
\* it to the net of each category below 0 in turn, the lowest last (category_net is
\* sorted descending); gross_income when no category is below 0
net_income_at_return(df, gross_income, allocated_rent_so_far) ==
    LET net == category_net(df, allocated_rent_so_far)
        revenue_cats == { c \in DOMAIN net : FLt(net[c], FloatZero) }
    IN  IF revenue_cats = {} THEN Float(gross_income)
        ELSE LET last == CHOOSE c \in revenue_cats :
                            \A o \in revenue_cats : ~FLt(net[o], net[c])
             IN  net[last]

\* rent_payments['Amount'].sum() (lines 586, 600)
actual_rent_paid(df) ==
    LET IsRent(row) == row.Amount > 0 /\ RentPayment(row)
    IN  SumAmount(SelectSeq(df, IsRent))

\* non_rent_expenses['Amount'].sum() (lines 587, 601)
non_rent_spent(df) ==
    LET NonRent(row) == row.Amount > 0 /\ ~RentPayment(row)
    IN  SumAmount(SelectSeq(df, NonRent))

\* abs(income['Amount'].sum()) (lines 590-591, 602)
total_income_received(df) == Abs(SumAmount(IncomeExcludingMarkers(df)))

\* internship_analysis from line 624 on: the projection, the chart and the figures
\* returned, with the rent of a day, the rent allocated so far, the net amount spent
\* and the remaining budget as lines 596-606 have computed them
internship_results(df, spending_start_date, income_start_date, income_end_date, gross_income, total_rent, today, daily_rent, allocated_rent_so_far, net_spent, remaining_budget) ==
    LET total_days_spending == today - spending_start_date + 1
        days_remaining == income_end_date - today
        non_rent_days == Max(1, total_days_spending)
        daily_non_rent_rate ==
            Frac(non_rent_spent(df) - total_income_received(df), non_rent_days)
        chart == create_burndown_chart_with_rent(df, spending_start_date,
                     income_start_date, income_end_date, gross_income, total_rent, today)
    IN  IF chart.status = "error"
        THEN [fn |-> "internship_analysis", status |-> "error"]
        ELSE [ fn |-> "internship_analysis", status |-> "ok",
               net_income |-> net_income_at_return(df, gross_income,
                                                   allocated_rent_so_far),
               non_rent_spent |-> non_rent_spent(df),
               allocated_rent |-> allocated_rent_so_far,
               actual_rent_paid |-> actual_rent_paid(df),
               total_income_received |-> total_income_received(df),
               net_spent |-> net_spent,
               remaining_budget |-> remaining_budget,
               daily_non_rent_rate |-> daily_non_rent_rate,
               daily_rent |-> daily_rent,
               projected_total_net_spending |->
                   FAdd(FTimes(daily_non_rent_rate,
                               income_end_date - spending_start_date),
                        Float(total_rent)),
               days_remaining |-> days_remaining,
               days_so_far |-> IF today >= income_start_date
                               THEN today - income_start_date + 1 ELSE 0,
               total_internship_days |-> income_end_date - income_start_date + 1,
               \* the amount per day printed by the recommendations
               per_day |-> IF FLt(remaining_budget, FloatZero)
                           THEN NumpyAbs(NumpyDivide(remaining_budget, days_remaining))
                           ELSE IF days_remaining > 0
                           THEN FOver(remaining_budget, days_remaining)
                           ELSE NoBudget,
               chart |-> chart ]

\* internship_analysis, from the frame it has loaded; total_rent / 0 raises, and
\* so does the chart (line 656, not caught)
internship_analysis(df, spending_start_date, income_start_date, income_end_date, gross_income, total_rent, today) ==
    LET net_income == gross_income
        total_internship_days == income_end_date - income_start_date + 1
        days_so_far == IF today >= income_start_date
                       THEN today - income_start_date + 1 ELSE 0
        daily_rent == Frac(total_rent, total_internship_days)
        allocated_rent_so_far == FTimes(daily_rent, Max(0, days_so_far))
        net_spent == FSub(FAdd(Float(non_rent_spent(df)), allocated_rent_so_far),
                          Float(total_income_received(df)))
    IN  IF total_internship_days = 0
        THEN [fn |-> "internship_analysis", status |-> "error"]
        ELSE internship_results(df, spending_start_date, income_start_date,
                 income_end_date, gross_income, total_rent, today, daily_rent,
                 allocated_rent_so_far, net_spent,
                 FSub(Float(net_income), net_spent))

\* the value of remaining_budget after the chart loop of calculate_internship_metrics:
\* the loop assigns it for every day of the window, the last day last
remaining_budget_after_loop(expenses_no_rent, internship_start, internship_end, total_income, daily_rent, today) ==
    LET actual_end_date == Min(today, internship_end)
        duration_days == internship_end - internship_start + 1
    IN  IF internship_end <= actual_end_date
        THEN <<Float(total_income - (SumAmount(expenses_no_rent)
                                    + daily_rent * duration_days))>>
        ELSE None

\* the dictionary calculate_internship_metrics returns (lines 126-144), with the
\* figures lines 43-74 have computed
internship_metrics(duration_days, days_elapsed, total_income, actual_spending, smooth_rent_total, remaining_budget, category_spending, daily_budget, actual_daily_rate, projected_total_spending, projected_surplus_deficit) ==
    LET variance == NumpyDivide(projected_surplus_deficit, total_income)
    IN  [ fn |-> "calculate_internship_metrics", status |-> "ok",
          duration_days |-> duration_days,
          days_elapsed |-> days_elapsed,
          remaining_days |-> duration_days - days_elapsed,
          total_income |-> total_income,
          actual_spending |-> actual_spending,
          smooth_rent_total |-> smooth_rent_total,
          total_actual_spending |-> actual_spending + smooth_rent_total,
          remaining_budget |-> remaining_budget,
          daily_budget |-> daily_budget,
          actual_daily_rate |-> actual_daily_rate,
          projected_total_spending |-> projected_total_spending,
          projected_surplus_deficit |-> projected_surplus_deficit,
          category_spending |-> category_spending,
          on_budget |-> ~FLt(projected_surplus_deficit, FloatZero),
          budget_variance_pct |->
              IF "special" \in DOMAIN variance THEN variance
              ELSE FTimes(variance, 100),
          spending_efficiency |->
              IF FLt(FloatZero, daily_budget)
              THEN FTimes(FDiv(actual_daily_rate, daily_budget), 100)
              ELSE FloatZero ]

\* lines 67-74 of calculate_internship_metrics: the projection to the end of the
\* window from the rate of a day so far
internship_projection(duration_days, days_elapsed, total_income, actual_spending, smooth_rent_total, remaining_budget, category_spending, daily_budget, actual_daily_rate) ==
    LET total_actual_spending == actual_spending + smooth_rent_total
        remaining_days == duration_days - days_elapsed
        projected_total_spending ==
            IF remaining_days > 0
            THEN FAdd(Float(total_actual_spending),
                      FTimes(actual_daily_rate, remaining_days))
            ELSE Float(total_actual_spending)
    IN  internship_metrics(duration_days, days_elapsed, total_income,
            actual_spending, smooth_rent_total, remaining_budget, category_spending,
            daily_budget, actual_daily_rate, projected_total_spending,
            IF remaining_days > 0
            THEN FSub(Float(total_income), projected_total_spending)
            ELSE Float(total_income - total_actual_spending))

\* calculate_internship_metrics; every exception is caught and None returned
calculate_internship_metrics(df, internship_start, internship_end, total_income, daily_rent, today) ==
    LET InPeriod(row) == /\ row.TransDate >= internship_start
                         /\ row.TransDate <= internship_end
        internship_df == SelectSeq(df, InPeriod)
        duration_days == internship_end - internship_start + 1
        days_elapsed == Max(0, Min(today - internship_start + 1, duration_days))
        IsExpense(row) == row.Amount > 0
        expenses == SelectSeq(internship_df, IsExpense)
        NotRent(row) == ~rent_mask(row)
        expenses_no_rent == SelectSeq(expenses, NotRent)
        actual_spending == SumAmount(expenses_no_rent)
        smooth_rent_total == daily_rent * days_elapsed
        total_actual_spending == actual_spending + smooth_rent_total
    IN  IF internship_df = <<>>
        THEN [fn |-> "calculate_internship_metrics", status |-> "none"]
        ELSE internship_projection(duration_days, days_elapsed, total_income,
                 actual_spending, smooth_rent_total,
                 remaining_budget_after_loop(expenses_no_rent, internship_start,
                     internship_end, total_income, daily_rent, today),
                 GroupByCategory(expenses_no_rent),
                 Frac(total_income, duration_days),
                 IF days_elapsed > 0 THEN Frac(total_actual_spending, days_elapsed)
                 ELSE FloatZero)

\* the last day a budget window can end on; today ranges one day beyond either end
MaxBudgetDay == 3

\* restaurant purchases and refunds, and payments to the housing provider
BudgetCardRows ==
    { [TransDate |-> d, Description |-> l.Description, Amount |-> l.Amount,
       Category |-> l.Category]
      : d \in Days,
        l \in { [Description |-> DinerDescription, Amount |-> 50,
                 Category |-> "Restaurants"],
                [Description |-> DinerDescription, Amount |-> -20,
                 Category |-> "Restaurants"],
                [Description |-> HousingProvider, Amount |-> 60,
                 Category |-> "Travel/ Entertainment"] } }

\* the income window: income_end_date may be the day before income_start_date
BudgetWindows ==
    { w \in Days \X (0..MaxBudgetDay) : w[2] >= w[1] - 1 }

\* the arguments of finance_analyzer.internship_analysis, and the day it runs
CliBudgetInputs ==
    { [fn |-> "internship_analysis", spending_start_date |-> s,
       income_start_date |-> w[1], income_end_date |-> w[2],
       gross_income |-> g, total_rent |-> r, today |-> t]
      : s \in Days, w \in BudgetWindows, g \in {0, 100}, r \in {0, 60},
        t \in 0..(MaxBudgetDay + 1) }

\* the inputs of the web form of show_internship_analysis, and the day it runs
WebBudgetInputs ==
    { [fn |-> "calculate_internship_metrics", internship_start |-> w[1],
       internship_end |-> w[2], total_income |-> g, daily_rent |-> r, today |-> t]
      : w \in BudgetWindows, g \in {0, 100}, r \in {0, 20}, t \in 0..(MaxBudgetDay + 1) }

InitBudget ==
    /\ cardFile \in UNION { [1..n -> BudgetCardRows] : n \in 1..MaxRows }
    /\ venmoNative = <<>>
    /\ categorized_data = <<>>
    /\ venmoFile = NoFile
    /\ path = "none"
    /\ discoverOut = <<>>
    /\ venmoOut = <<>>
    /\ ledger = <<>>
    /\ events = <<>>
    /\ pc = "start"
    /\ metrics = NoResult
    /\ insights = NoResult
    /\ rowIn = NoRow
    /\ rowOut = NoRowResult
    /\ window = <<>>
    /\ budgetIn \in CliBudgetInputs \cup WebBudgetInputs
    /\ budgetOut = NoBudget
    /\ session = NoSession
    /\ categorizer = NoRun

\* finance_analyzer.internship_analysis lines 573-762: load the ledger from the
\* spending start date with no end date, categorize it when it has no
\* Enhanced_Category column, compute the budget figures and draw the chart
InternshipAnalysis ==
    /\ pc = "start"
    /\ budgetIn.fn = "internship_analysis"
    /\ \E r \in load_and_clean_data(cardFile, venmoFile,
                                    <<budgetIn.spending_start_date>>, None, TRUE) :
        LET categorized == r.df # <<>> /\ "Enhanced_Category" \in DOMAIN r.df[1]
            raises == \/ r.status = "error"
                      \/ (~categorized /\ enhanced_categorization_raises(r.df))
            df == IF categorized THEN r.df ELSE enhanced_categorization(r.df)
        IN  /\ window' = <<<<budgetIn.spending_start_date>>, None>>
            /\ discoverOut' = r.discover
            /\ venmoOut' = r.venmo
            /\ IF raises
               THEN /\ ledger' = r.df
                    /\ events' = r.events
                    /\ budgetOut' = [fn |-> "internship_analysis", status |-> "error"]
               ELSE /\ ledger' = df
                    /\ events' = IF categorized THEN r.events
                                 ELSE r.events \o <<"categorize">>
                    /\ budgetOut' =
                         internship_analysis(df, budgetIn.spending_start_date,
                             budgetIn.income_start_date, budgetIn.income_end_date,
                             budgetIn.gross_income, budgetIn.total_rent, budgetIn.today)
    /\ path' = "cli"
    /\ pc' = "budgeted"
    /\ UNCHANGED <<cardFile, venmoNative, categorized_data, venmoFile, metrics,
                   insights, rowIn, rowOut, budgetIn, session, categorizer>>

\* internship_analysis.show_internship_analysis, the analyze button (lines 415-427):
\* calculate_internship_metrics on the frame of the session
AnalyzeInternshipBudget ==
    /\ pc = "loaded"
    /\ path = "web"
    /\ budgetIn.fn = "calculate_internship_metrics"
    /\ budgetOut' = calculate_internship_metrics(ledger, budgetIn.internship_start,
                        budgetIn.internship_end, budgetIn.total_income,
                        budgetIn.daily_rent, budgetIn.today)
    /\ pc' = "budgeted"
    /\ UNCHANGED <<cardFile, venmoNative, categorized_data, venmoFile, path,
                   discoverOut, venmoOut, ledger, events, metrics, insights,
                   rowIn, rowOut, window, budgetIn, session, categorizer>>

\* a command-line run of the budget analysis, or a web session that processes the
\* card file and then opens the budget page
NextBudget ==
    \/ InternshipAnalysis
    \/ (budgetIn.fn = "calculate_internship_metrics" /\ ProcessAndCombine)
    \/ AnalyzeInternshipBudget

SpecBudget == InitBudget /\ [][NextBudget]_vars

-----------------------------------------------------------------------------
(* Reading the files.  A cell of a file as read_csv gives it is a date, a      *)
(* number, or text that is neither.  The two entry points of the card file and *)
(* the two peer-payment adapters, each from the file to the frame it returns.  *)

DateCell(d) == [kind |-> "date", day |-> d]

NumberCell(a) == [kind |-> "number", value |-> a]

\* text that is neither a date nor a number
BadText == [kind |-> "text"]

\* the amount pd.to_numeric(errors='coerce') gives for text
NaNAmount == [kind |-> "nan"]

\* a purchase, a purchase whose amount is text, a purchase whose description is
\* empty, and a card payment; the statement posts a transaction on the day it was made
RawCardRows ==
    { [TransDate |-> dc, PostDate |-> dc, Description |-> l.Description,
       Amount |-> l.Amount, Category |-> l.Category]
      : dc \in { DateCell(d) : d \in Days } \cup {BadText},
        l \in { [Description |-> DinerDescription, Amount |-> NumberCell(50),
                 Category |-> "Restaurants"],
                [Description |-> DinerDescription, Amount |-> BadText,
                 Category |-> "Restaurants"],
                [Description |-> NaNText, Amount |-> NumberCell(50),
                 Category |-> "Restaurants"],
                [Description |-> PaymentDescription, Amount |-> NumberCell(-20),
                 Category |-> "Payments and Credits"] } }

\* a row of venmo_categorized_transactions.csv: a payment of 30 to a friend
RawVenmoRows ==
    { [ export_row([ID |-> 1, Datetime |-> 1, Note |-> NaNText, To |-> FriendName,
                    Amount_Clean |-> 30, From |-> OwnerName], <<>>)
        EXCEPT !.Date = dc, !.Amount = ac ]
      : dc \in { DateCell(d) : d \in Days } \cup {BadText},
        ac \in {NumberCell(-30), BadText} }

\* pd.to_datetime(column) with the default errors='raise' raises on text
to_datetime_raises(rows, column) == \E i \in 1..Len(rows) : rows[i][column] = BadText

\* pd.to_numeric(cell, errors='coerce')
to_numeric(cell) == IF cell.kind = "number" THEN cell ELSE NaNAmount

\* -df['Amount'] raises on a column that holds text
negate_raises(rows) == \E i \in 1..Len(rows) : rows[i].Amount = BadText

\* a coerced amount as the comparisons Amount > 0 and Amount < 0 see it: both are
\* False for NaN, as they are for 0
compared(cell) == IF cell.kind = "number" THEN cell.value ELSE 0

\* the card file after pd.to_datetime of both date columns and pd.to_numeric of
\* Amount; Coerced keeps what to_numeric returned
converted_card(rows) ==
    [i \in 1..Len(rows) |->
        ("Coerced" :> to_numeric(rows[i].Amount))
        @@ [rows[i] EXCEPT !.TransDate = @.day, !.PostDate = @.day,
                           !.Amount = compared(to_numeric(@))]]

\* the Venmo file after pd.to_datetime of Date, its amounts being numbers
converted_venmo(rows) ==
    [i \in 1..Len(rows) |-> [rows[i] EXCEPT !.Date = @.day, !.Amount = @.value]]

\* the frame an adapter returns, with every date and Amount as the cell it holds:
\* what to_numeric returned on a card row, a number on a Venmo row
frame_cells(df) ==
    [i \in 1..Len(df) |->
        [c \in DOMAIN df[i] \ {"Coerced"} |->
            IF c \in {"TransDate", "PostDate"} THEN DateCell(df[i][c])
            ELSE IF c # "Amount" THEN df[i][c]
            ELSE IF df[i].Source = "Discover" THEN df[i].Coerced
            ELSE NumberCell(df[i].Amount)]]

\* load_and_clean_data(csv_file, start_date, end_date) with include_venmo left at
\* True: an exception of pd.to_datetime (lines 70, 71, 27), of the negation (line
\* 36) or of enhanced_categorization (line 120) ends the call
load_and_clean_data_file(csv, file, start_date, end_date) ==
    IF \/ to_datetime_raises(csv, "TransDate")
       \/ to_datetime_raises(csv, "PostDate")
       \/ file.exists /\ to_datetime_raises(file.rows, "Date")
       \/ file.exists /\ negate_raises(file.rows)
    THEN { [status |-> "raise", df |-> <<>>] }
    ELSE { [status |-> IF r.status = "ok" THEN "ok" ELSE "raise",
            df |-> frame_cells(r.df)]
           : r \in load_and_clean_data(converted_card(csv),
                       [exists |-> file.exists, rows |-> converted_venmo(file.rows)],
                       start_date, end_date, TRUE) }

\* process_discover_data on an upload that has the required columns: every
\* exception is caught and None returned
process_discover_data_file(data_input, start_date, end_date) ==
    IF to_datetime_raises(data_input, "TransDate") \/ to_datetime_raises(data_input, "PostDate")
    THEN [status |-> "none", df |-> <<>>]
    ELSE LET r == process_discover_data(converted_card(data_input), start_date, end_date)
         IN  [status |-> IF r.status = "ok" THEN "ok" ELSE "none",
              df |-> frame_cells(r.df)]

\* load_venmo_data(start_date, end_date): an empty frame when the file does not exist
load_venmo_data_file(file, start_date, end_date) ==
    IF file.exists /\ (to_datetime_raises(file.rows, "Date") \/ negate_raises(file.rows))
    THEN [status |-> "raise", df |-> <<>>]
    ELSE [status |-> "ok",
          df |-> frame_cells(load_venmo_data(
                     [exists |-> file.exists, rows |-> converted_venmo(file.rows)],
                     start_date, end_date))]

\* process_venmo_data on an upload that has the required columns: every exception
\* is caught and None returned
process_venmo_data_file(data_input, start_date, end_date) ==
    IF to_datetime_raises(data_input, "Date") \/ negate_raises(data_input)
    THEN [status |-> "none", df |-> <<>>]
    ELSE [status |-> "ok",
          df |-> frame_cells(process_venmo_data(converted_venmo(data_input),
                                                start_date, end_date))]

InitRead ==
    /\ cardFile \in UNION { [1..n -> RawCardRows] : n \in 1..MaxRows }
    /\ venmoFile \in {NoFile} \cup { [exists |-> TRUE, rows |-> <<r>>] : r \in RawVenmoRows }
    /\ venmoNative = <<>>
    /\ categorized_data = <<>>
    /\ path = "none"
    /\ discoverOut = <<>>
    /\ venmoOut = <<>>
    /\ ledger = <<>>
    /\ events = <<>>
    /\ pc = "start"
    /\ metrics = NoResult
    /\ insights = NoResult
    /\ rowIn = NoRow
    /\ rowOut = NoRowResult
    /\ window = <<>>
    /\ budgetIn = NoBudget
    /\ budgetOut = NoBudget
    /\ session = NoSession
    /\ categorizer = NoRun

\* one call returns or raises; ledger is the frame it returns
ReadFile(entry, adapter, out) ==
    /\ pc = "start"
    /\ pc' = out.status
    /\ ledger' = out.df
    /\ path' = entry
    /\ events' = <<adapter>>
    /\ UNCHANGED <<cardFile, venmoNative, categorized_data, venmoFile, discoverOut,
                   venmoOut, metrics, insights, rowIn, rowOut, budgetIn, budgetOut,
                   session, categorizer>>

\* finance_analyzer.load_and_clean_data lines 64-148
ReadCardCli ==
    \E start_date \in DateArgs, end_date \in DateArgs :
        \E out \in load_and_clean_data_file(cardFile, venmoFile, start_date, end_date) :
            /\ window' = <<start_date, end_date>>
            /\ ReadFile("cli", "card_adapter", out)

\* data_processor.process_discover_data lines 18-94
ReadCardWeb ==
    \E start_date \in DateArgs, end_date \in DateArgs :
        /\ window' = <<start_date, end_date>>
        /\ ReadFile("web", "card_adapter",
                    process_discover_data_file(cardFile, start_date, end_date))

\* finance_analyzer.load_venmo_data lines 14-62
ReadVenmoCli ==
    \E start_date \in DateArgs, end_date \in DateArgs :
        /\ window' = <<start_date, end_date>>
        /\ ReadFile("cli", "venmo_adapter",
                    load_venmo_data_file(venmoFile, start_date, end_date))

\* data_processor.process_venmo_data lines 96-154, on an uploaded file
ReadVenmoWeb ==
    /\ venmoFile.exists
    /\ \E start_date \in DateArgs, end_date \in DateArgs :
        /\ window' = <<start_date, end_date>>
        /\ ReadFile("web", "venmo_adapter",
                    process_venmo_data_file(venmoFile.rows, start_date, end_date))

NextRead ==
    \/ ReadCardCli
    \/ ReadCardWeb
    \/ ReadVenmoCli
    \/ ReadVenmoWeb

SpecRead == InitRead /\ [][NextRead]_vars

-----------------------------------------------------------------------------
(* Files with missing columns.  A file that lacks a column is a file whose     *)
(* rows lack that field.  One card purchase and one exported peer payment,     *)
(* each file with any subset of its columns, no date window.                   *)

\* the columns the upload page and process_discover_data require of a card file
CardColumns == {"TransDate", "Description", "Amount", "Category"}

\* the columns of a card statement: load_and_clean_data also converts 'Post Date'
\* (line 71), which process_discover_data takes from 'Trans. Date' when it is absent
StatementColumns == CardColumns \cup {"PostDate"}

VenmoColumns == {"Date", "Description", "Amount", "Category", "Transaction_Type"}

\* the columns load_and_clean_data reads, in the order it reads them when the Venmo
\* file has rows: classify_transaction reads Description for rows that are no expense
ColumnsRead(csv) ==
    <<[file |-> "card", column |-> "TransDate"], [file |-> "card", column |-> "PostDate"],
      [file |-> "card", column |-> "Amount"]>>
    \o (IF "Amount" \in DOMAIN csv[1] /\ \E i \in 1..Len(csv) : csv[i].Amount <= 0
        THEN <<[file |-> "card", column |-> "Description"]>> ELSE <<>>)
    \o <<[file |-> "venmo", column |-> "Date"], [file |-> "venmo", column |-> "Category"],
         [file |-> "venmo", column |-> "Amount"],
         [file |-> "venmo", column |-> "Transaction_Type"],
         [file |-> "card", column |-> "Description"],
         [file |-> "card", column |-> "Category"],
         [file |-> "venmo", column |-> "Description"]>>

\* the reads of a column its file does not have
KeyErrors(csv, file) ==
    LET Absent(r) == r.column \notin (IF r.file = "card" THEN DOMAIN csv[1]
                                      ELSE DOMAIN file.rows[1])
    IN  SelectSeq(ColumnsRead(csv), Absent)

\* load_and_clean_data on such files: the first read of an absent column raises
\* KeyError, which nothing catches; the error names that column
load_and_clean_data_columns(csv, file) ==
    IF KeyErrors(csv, file) # <<>>
    THEN { [status |-> "error", df |-> <<>>, metrics |-> NoResult,
            window |-> <<None, None>>, message |-> <<Head(KeyErrors(csv, file))>>] }
    ELSE { [status |-> r.status, df |-> r.df, metrics |-> NoResult,
            window |-> <<None, None>>, message |-> <<>>]
           : r \in load_and_clean_data(csv, file, None, None, TRUE) }

\* app.show_upload_page: a file is stored when it has the required columns, else the
\* message lists all required columns
UploadMessage(name, rows, required_columns) ==
    IF required_columns \subseteq DOMAIN rows[1] THEN <<>>
    ELSE <<[file |-> name, columns |-> required_columns]>>

\* the upload of both files and the Process button (no dates given): no button without
\* a stored card file; process_venmo_data catches the KeyError of Transaction_Type and
\* returns None; the metrics of the combined frame are stored with it (lines 526-530)
process_and_combine_columns(csv, file) ==
    LET discover_message == UploadMessage("card", csv, CardColumns)
        venmo_message == UploadMessage("venmo", file.rows, VenmoColumns \ {"Transaction_Type"})
        type_message == IF "Transaction_Type" \in DOMAIN file.rows[1] THEN <<>>
                        ELSE <<[file |-> "venmo", column |-> "Transaction_Type"]>>
        processed_discover == process_discover_data(csv, None, None)
        processed_venmo == IF venmo_message = <<>> /\ type_message = <<>>
                           THEN process_venmo_data(file.rows, None, None)
                           ELSE <<>>
    IN  IF discover_message # <<>>
        THEN { [status |-> "error", df |-> <<>>, metrics |-> NoResult, window |-> <<>>,
                message |-> discover_message \o venmo_message] }
        ELSE { [status |-> "ok", df |-> combined_df,
                metrics |-> calculate_basic_metrics(combined_df),
                window |-> <<None, None>>,
                message |-> IF venmo_message # <<>> THEN venmo_message ELSE type_message]
               : combined_df \in combine_datasets(processed_discover.df, processed_venmo) }

SchemaCardRow ==
    [TransDate |-> 1, PostDate |-> 1, Description |-> DinerDescription, Amount |-> 50,
     Category |-> "Restaurants"]

SchemaVenmoRows ==
    { export_row([ID |-> 1, Datetime |-> 1, Note |-> NaNText, To |-> t, Amount_Clean |-> 30,
                  From |-> IF t = OwnerName THEN FriendName ELSE OwnerName], <<>>)
      : t \in {OwnerName, FriendName} }

InitSchema ==
    /\ cardFile \in { <<Restrict(SchemaCardRow, c)>> : c \in SUBSET StatementColumns }
    /\ venmoFile \in { [exists |-> TRUE, rows |-> <<Restrict(r, c)>>]
                       : r \in SchemaVenmoRows, c \in SUBSET VenmoColumns }
    /\ venmoNative = <<>>
    /\ categorized_data = <<>>
    /\ path = "none"
    /\ discoverOut = <<>>
    /\ venmoOut = <<>>
    /\ ledger = <<>>
    /\ events = <<>>
    /\ pc = "start"
    /\ metrics = NoResult
    /\ insights = NoResult
    /\ rowIn = NoRow
    /\ rowOut = NoRowResult
    /\ window = <<>>
    /\ budgetIn = NoBudget
    /\ budgetOut = NoBudget
    /\ session = NoSession
    /\ categorizer = NoRun

\* one entry point loads both files; events is the error message shown, metrics what
\* the session stores beside the frame, window the dates of the call
LoadFiles(outcomes) ==
    /\ pc = "start"
    /\ \E r \in outcomes :
        /\ pc' = IF r.status = "ok" THEN "loaded" ELSE "error"
        /\ ledger' = r.df
        /\ events' = r.message
        /\ metrics' = r.metrics
        /\ window' = r.window
    /\ UNCHANGED <<cardFile, venmoNative, categorized_data, venmoFile, discoverOut,
                   venmoOut, insights, rowIn, rowOut, budgetIn, budgetOut, session,
                   categorizer>>

\* finance_analyzer.load_and_clean_data(csv_file, include_venmo=True)
LoadAndCleanDataColumns ==
    /\ path' = "cli"
    /\ LoadFiles(load_and_clean_data_columns(cardFile, venmoFile))

\* app.show_upload_page: both uploads, then the Process button
ProcessAndCombineColumns ==
    /\ path' = "web"
    /\ LoadFiles(process_and_combine_columns(cardFile, venmoFile))

NextSchema ==
    \/ LoadAndCleanDataColumns
    \/ ProcessAndCombineColumns

SpecSchema == InitSchema /\ [][NextSchema]_vars

-----------------------------------------------------------------------------
(* The category manager of the web application (category_manager.py): a       *)
(* session that processes the card file, may analyze the internship budget,    *)
(* and edits the categories of the ledger with the five buttons of the         *)
(* manager.  The filters of the analysis page are left as they are drawn, so   *)
(* the frame the manager is given is a copy of combined_data.                  *)

\* the edits of one session
MaxUpdates == 2

\* the rows of the card file of a session with edits
MaxEditRows == 3

\* category_manager.get_all_categories(df), lines 14-16: sorted() compares the
\* categories, and a NaN beside a text raises TypeError; here the list as a set
get_all_categories(df) ==
    LET unique == { df[i].Enhanced_Category : i \in 1..Len(df) }
    IN  IF NaN \in unique /\ unique # {NaN}
        THEN [status |-> "error", value |-> {}]
        ELSE [status |-> "ok", value |-> unique]

\* st.session_state.combined_data.loc[idx, 'Enhanced_Category'] = new_category;
\* idx is the label of one row, here its position
set_category(df, idx, new_category) ==
    [df EXCEPT ![idx] = [@ EXCEPT !.Enhanced_Category = new_category]]

\* combined_data.loc[combined_data['Enhanced_Category'] == from_category,
\* 'Enhanced_Category'] = to_category (lines 197-200); NaN equals nothing
bulk_change(df, from_category, to_category) ==
    [i \in 1..Len(df) |->
        IF df[i].Enhanced_Category # NaN /\ df[i].Enhanced_Category = from_category
        THEN [df[i] EXCEPT !.Enhanced_Category = to_category]
        ELSE df[i]]

\* the loop of lines 230-235: every selected category other than the target is
\* changed into the target
merge_categories(df, categories_to_merge, merge_into) ==
    [i \in 1..Len(df) |->
        IF /\ df[i].Enhanced_Category # NaN
           /\ df[i].Enhanced_Category \in categories_to_merge \ {merge_into}
        THEN [df[i] EXCEPT !.Enhanced_Category = merge_into]
        ELSE df[i]]

\* the description patterns typed into the rule form; each is a plain word, which
\* str.contains searches as it stands
RulePatterns ==
    { <<"D", "I", "N", "E", "R">>, <<"d", "i", "n", "e", "r">>,
      <<"M", "E", "T", "E", "R">> }

\* lines 279-285: mask = Description.str.contains(pattern[, case=False], na=False)
apply_rule(df, description_pattern, target_category, case_sensitive) ==
    [i \in 1..Len(df) |->
        IF /\ df[i].Description # <<>>
           /\ IF case_sensitive
              THEN Contains(df[i].Description, description_pattern)
              ELSE ContainsIgnoreCase(df[i].Description, description_pattern)
        THEN [df[i] EXCEPT !.Enhanced_Category = target_category]
        ELSE df[i]]

\* line 293: the rows the quick assignment offers, by position
uncategorized_df(df) ==
    { i \in 1..Len(df) :
        df[i].Enhanced_Category \in {"Other", "Miscellaneous", "Unknown"} }

\* lines 299, 312-314: the first of them gets the category
quick_assign(df, new_cat) ==
    set_category(df, CHOOSE i \in uncategorized_df(df) :
                        \A j \in uncategorized_df(df) : i <= j, new_cat)

\* the card rows of a session with edits: purchases of 50 on the first day of
\* the internship, which every window of EditBudgetInputs holds; the buttons of
\* the manager read the description and the category of a row, never its date
EditCardRows ==
    { [TransDate |-> d, Description |-> l.Description, Amount |-> 50,
       Category |-> l.Category]
      : d \in {1},
        l \in { [Description |-> DinerDescription, Category |-> "Restaurants"],
                [Description |-> ParkingDescription, Category |-> "Services"],
                [Description |-> ParkingDescription, Category |-> "Other"] } }

\* the analysis of the internship budget the session may ask for
EditBudgetInputs ==
    { b \in WebBudgetInputs :
        /\ b.internship_start = 1
        /\ b.total_income = 100
        /\ b.daily_rent = 20
        /\ b.today = b.internship_end }

InitEdit ==
    /\ cardFile \in UNION { [1..n -> EditCardRows] : n \in 1..MaxEditRows }
    /\ venmoNative = <<>>
    /\ categorized_data = <<>>
    /\ venmoFile = NoFile
    /\ path = "none"
    /\ discoverOut = <<>>
    /\ venmoOut = <<>>
    /\ ledger = <<>>
    /\ events = <<>>
    /\ pc = "start"
    /\ metrics = NoResult
    /\ insights = NoResult
    /\ rowIn = NoRow
    /\ rowOut = NoRowResult
    /\ window = <<>>
    /\ budgetIn \in EditBudgetInputs
    /\ budgetOut = NoBudget
    /\ session = NoSession
    /\ categorizer = NoRun

\* the buttons of the manager that write the ledger
EditEvents == {"update", "bulk", "merge", "rule", "assign"}

\* the manager is drawn for a processed ledger whose categories can be listed
\* (app.py line 578 and get_all_categories sort them)
ManagerShown ==
    /\ pc \in {"loaded", "budgeted"}
    /\ path = "web"
    /\ Len(ledger) > 0
    /\ get_all_categories(ledger).status = "ok"
    /\ Len(SelectSeq(events, LAMBDA e : e \in EditEvents)) < MaxUpdates

\* every button writes combined_data and nothing else of the session state
EditFrame ==
    UNCHANGED <<cardFile, venmoNative, categorized_data, venmoFile, path,
                discoverOut, venmoOut, pc, metrics, insights, rowIn, rowOut,
                window, budgetIn, budgetOut, session, categorizer>>

\* category_manager.show_transaction_editor, the Update button of one row (lines
\* 166-172): the category of that row in combined_data is replaced and the page is
\* run again
UpdateCategory ==
    /\ ManagerShown
    /\ \E idx \in 1..Len(ledger), new_category \in get_all_categories(ledger).value :
        ledger' = set_category(ledger, idx, new_category)
    /\ events' = events \o <<"update">>
    /\ EditFrame

\* show_bulk_category_editor, the Apply Bulk Change button (lines 193-204): with two
\* different categories the rows of the first get the second and the page is run
\* again, with the same category twice a warning is shown
ApplyBulkChange ==
    /\ ManagerShown
    /\ \E from_category \in get_all_categories(ledger).value,
          to_category \in get_all_categories(ledger).value :
        ledger' = IF from_category # to_category
                  THEN bulk_change(ledger, from_category, to_category)
                  ELSE ledger
    /\ events' = events \o <<"bulk">>
    /\ EditFrame

\* show_bulk_category_editor, the Merge Categories button, drawn when more than one
\* category is selected (lines 216-237)
MergeCategories ==
    /\ ManagerShown
    /\ \E categories_to_merge \in SUBSET get_all_categories(ledger).value :
        /\ Cardinality(categories_to_merge) > 1
        /\ \E merge_into \in categories_to_merge :
            ledger' = merge_categories(ledger, categories_to_merge, merge_into)
    /\ events' = events \o <<"merge">>
    /\ EditFrame

\* create_new_category_rule, the Apply Rule button with a pattern typed in (lines
\* 276-287)
ApplyRule ==
    /\ ManagerShown
    /\ \E description_pattern \in RulePatterns,
          target_category \in get_all_categories(ledger).value,
          case_sensitive \in BOOLEAN :
        ledger' = apply_rule(ledger, description_pattern, target_category,
                             case_sensitive)
    /\ events' = events \o <<"rule">>
    /\ EditFrame

\* create_new_category_rule, the quick Assign Category button, drawn when a row has
\* one of the three catch-all categories (lines 293-316)
QuickAssignCategory ==
    /\ ManagerShown
    /\ uncategorized_df(ledger) # {}
    /\ \E new_cat \in get_all_categories(ledger).value :
        ledger' = quick_assign(ledger, new_cat)
    /\ events' = events \o <<"assign">>
    /\ EditFrame

NextEdit ==
    \/ ProcessAndCombine
    \/ AnalyzeInternshipBudget
    \/ UpdateCategory
    \/ ApplyBulkChange
    \/ MergeCategories
    \/ ApplyRule
    \/ QuickAssignCategory

SpecEdit == InitEdit /\ [][NextEdit]_vars

-----------------------------------------------------------------------------
(* The web categorizer (venmo_categorizer_web.py).  venmoFile is what the two  *)
(* uploaders hold: the rows of the CSV and the transactions of the progress    *)
(* file (none: <<>>); categorized_data is the last progress file downloaded.   *)
(* A transaction of the file is identified by its position in the file.        *)

\* the category of a transaction not yet categorized (None)
NoCategory == "None"

\* the categories offered in a session of the model (two of CATEGORY_OPTIONS)
CategoryOptions == {"Shopping", "Other"}

\* the transaction list built from the rows of the CSV (lines 195-203)
transaction_list(rows) ==
    [i \in 1..Len(rows) |->
        [Date |-> rows[i].Date, Description |-> rows[i].Description,
         Amount |-> rows[i].Amount, Transaction_Type |-> rows[i].Transaction_Type,
         category |-> NoCategory]]

\* the key of a progress entry (line 217)
ProgressKey(t) == <<t.Date, t.Description, t.Amount>>

\* progress_dict (lines 210-214): of the categorized entries with one key the last wins
progress_dict(previous_transactions) ==
    LET categorized == SelectSeq(previous_transactions,
                                 LAMBDA t : t.category # NoCategory)
        keys == { ProgressKey(categorized[i]) : i \in 1..Len(categorized) }
        Last(k) == CHOOSE i \in 1..Len(categorized) :
                       /\ ProgressKey(categorized[i]) = k
                       /\ \A j \in (i + 1)..Len(categorized) :
                              ProgressKey(categorized[j]) # k
    IN  [k \in keys |-> categorized[Last(k)].category]

\* the load block of show_venmo_categorizer (lines 191-227) for the uploaded files
load_block(uploads) ==
    LET transactions == transaction_list(uploads.rows)
        restored == progress_dict(uploads.progress)
    IN  [ venmo_transactions |->
              [i \in 1..Len(transactions) |->
                  IF ProgressKey(transactions[i]) \in DOMAIN restored
                  THEN [transactions[i] EXCEPT
                            !.category = restored[ProgressKey(transactions[i])]]
                  ELSE transactions[i]],
          current_transaction_index |-> 0,
          categorization_mode |-> TRUE ]

\* a run of the page: the load block (lines 191-227) comes first in every run, the
\* one a click starts and the one st.rerun() starts; it resets the session when the
\* uploader still holds the file and hands it over readable from its start, otherwise
\* the session state is kept
Rerun(state, uploads) ==
    {state} \cup (IF uploads.exists THEN {load_block(uploads)} ELSE {})

\* what identifies the widgets the interface draws for a session: the quick buttons
\* and the category selector carry the index in their key (lines 284, 292), the
\* navigator its index and its option labels, which mark the categorized transactions
\* (lines 320-331)
indexed_widgets(state) == state.current_transaction_index

navigator(state) ==
    [ index |-> state.current_transaction_index,
      options |-> [i \in 1..Len(state.venmo_transactions) |->
                     state.venmo_transactions[i].category # NoCategory] ]

\* assign_category (lines 340-360); the index counts from 0
assign_category(state, category) ==
    LET transactions == [state.venmo_transactions EXCEPT
                            ![state.current_transaction_index + 1] =
                                [@ EXCEPT !.category = category]]
        current_idx == state.current_transaction_index
        uncategorized == { i \in (current_idx + 1)..(Len(transactions) - 1) :
                             transactions[i + 1].category = NoCategory }
        Least(S) == CHOOSE i \in S : \A j \in S : i <= j
    IN  [state EXCEPT
            !.venmo_transactions = transactions,
            !.current_transaction_index =
                IF uncategorized # {} THEN Least(uncategorized)
                ELSE IF current_idx + 1 < Len(transactions) THEN current_idx + 1
                ELSE current_idx]

\* next_transaction (lines 362-367)
next_transaction(state) ==
    IF state.current_transaction_index + 1 < Len(state.venmo_transactions)
    THEN [state EXCEPT !.current_transaction_index = @ + 1]
    ELSE state

\* previous_transaction (lines 369-374)
previous_transaction(state) ==
    IF state.current_transaction_index > 0
    THEN [state EXCEPT !.current_transaction_index = @ - 1]
    ELSE state

\* the categorization interface is shown: not the completion interface (lines 233-243)
Categorizing ==
    /\ session.categorization_mode
    /\ session.venmo_transactions # <<>>
    /\ session.current_transaction_index < Len(session.venmo_transactions)

WebVenmoRows ==
    { [Date |-> 1, Description |-> n, Amount |-> 30, Transaction_Type |-> "Payment"]
      : n \in {DirectpayNote, DinerDescription} }

InitCategorizer ==
    /\ venmoNative \in UNION { [1..n -> WebVenmoRows] : n \in 1..MaxRows }
    /\ cardFile = <<>>
    /\ categorized_data = <<>>
    /\ venmoFile = NoFile
    /\ path = "none"
    /\ discoverOut = <<>>
    /\ venmoOut = <<>>
    /\ ledger = <<>>
    /\ events = <<>>
    /\ pc = "start"
    /\ metrics = NoResult
    /\ insights = NoResult
    /\ rowIn = NoRow
    /\ rowOut = NoRowResult
    /\ window = <<>>
    /\ budgetIn = NoBudget
    /\ budgetOut = NoBudget
    /\ session = NoSession
    /\ categorizer = NoRun

\* what a step of the web categorizer leaves alone
CategorizerFrame ==
    UNCHANGED <<cardFile, venmoNative, path, discoverOut, venmoOut, ledger, pc, metrics,
                insights, rowIn, rowOut, window, budgetIn, budgetOut, categorizer>>

\* a session starts: the user uploads the CSV, with or without the progress file
\* downloaded last, and the load block runs
UploadVenmoCsv ==
    /\ ~venmoFile.exists
    /\ \E progress \in {<<>>, categorized_data} :
        /\ venmoFile' = [exists |-> TRUE, rows |-> venmoNative, progress |-> progress]
        /\ session' = load_block(venmoFile')
    /\ events' = <<"upload">>
    /\ UNCHANGED categorized_data
    /\ CategorizerFrame

\* the Assign Category button, or a quick category button (lines 282-301): the load
\* block runs first, and the click is lost when the interface then draws the buttons
\* of another index; assign_category always ends in st.rerun()
AssignCategory ==
    /\ Categorizing
    /\ \E category \in CategoryOptions, clicked \in Rerun(session, venmoFile) :
        IF indexed_widgets(clicked) = indexed_widgets(session)
        THEN session' \in Rerun(assign_category(clicked, category), venmoFile)
        ELSE session' = clicked
    /\ events' = <<"assign">>
    /\ UNCHANGED <<categorized_data, venmoFile>>
    /\ CategorizerFrame

\* the Skip Transaction button (lines 304-305): the load block, then next_transaction,
\* which calls st.rerun() when it has moved the index
SkipTransaction ==
    /\ Categorizing
    /\ \E clicked \in Rerun(session, venmoFile) :
        IF next_transaction(clicked) # clicked
        THEN session' \in Rerun(next_transaction(clicked), venmoFile)
        ELSE session' = clicked
    /\ events' = <<"skip">>
    /\ UNCHANGED <<categorized_data, venmoFile>>
    /\ CategorizerFrame

\* the Previous Transaction button, disabled at the first transaction (lines 308-309):
\* the load block, then previous_transaction, which calls st.rerun() when it has moved
\* the index
PreviousTransaction ==
    /\ Categorizing
    /\ session.current_transaction_index > 0
    /\ \E clicked \in Rerun(session, venmoFile) :
        IF previous_transaction(clicked) # clicked
        THEN session' \in Rerun(previous_transaction(clicked), venmoFile)
        ELSE session' = clicked
    /\ events' = <<"previous">>
    /\ UNCHANGED <<categorized_data, venmoFile>>
    /\ CategorizerFrame

\* the Jump to transaction selector (lines 320-335): the load block runs first, and the
\* selection is lost when the interface then draws another navigator
JumpToTransaction ==
    /\ Categorizing
    /\ \E selected_transaction \in 0..(Len(session.venmo_transactions) - 1),
          clicked \in Rerun(session, venmoFile) :
        /\ selected_transaction # session.current_transaction_index
        /\ IF navigator(clicked) = navigator(session)
           THEN session' \in Rerun([clicked EXCEPT
                                       !.current_transaction_index = selected_transaction],
                                   venmoFile)
           ELSE session' = clicked
    /\ events' = <<"jump">>
    /\ UNCHANGED <<categorized_data, venmoFile>>
    /\ CategorizerFrame

\* the Save Progress button (lines 312-313, 376-388): the load block, then the session
\* as it is then is offered for download; no st.rerun()
SaveProgress ==
    /\ Categorizing
    /\ \E clicked \in Rerun(session, venmoFile) :
        /\ session' = clicked
        /\ categorized_data' = clicked.venmo_transactions
    /\ events' = <<"save">>
    /\ UNCHANGED venmoFile
    /\ CategorizerFrame

\* the browser session ends: session state and uploaders are empty again
EndSession ==
    /\ venmoFile.exists
    /\ venmoFile' = NoFile
    /\ session' = NoSession
    /\ events' = <<>>
    /\ UNCHANGED categorized_data
    /\ CategorizerFrame

NextCategorizer ==
    \/ UploadVenmoCsv
    \/ AssignCategory
    \/ SkipTransaction
    \/ PreviousTransaction
    \/ JumpToTransaction
    \/ SaveProgress
    \/ EndSession

SpecCategorizer == InitCategorizer /\ [][NextCategorizer]_vars

-----------------------------------------------------------------------------
(* The categorizer run again on a merged ledger.  A column of the merged frame *)
(* is a field some row has; a row without the field holds NaN in that column.  *)

\* enhanced_categorization(df) on a merged frame: categorize_enhanced reads
\* row['Description'] and row['Category'] of every row; a frame without a Category
\* column raises KeyError, a frame without rows raises as described above
recategorize(df) ==
    IF enhanced_categorization_raises(df) \/ "Category" \notin DOMAIN df[1]
    THEN [fn |-> "enhanced_categorization", status |-> "error", value |-> <<>>]
    ELSE [fn |-> "enhanced_categorization", status |-> "ok",
          value |-> enhanced_categorization(df)]

\* the merged ledgers of the command line and of the web application for the files
MergedLedgers(csv, file, entry) ==
    IF entry = "cli"
    THEN { r.df : r \in { o \in load_and_clean_data(csv, file, None, None, TRUE) :
                            o.status = "ok" } }
    ELSE LET processed_discover == process_discover_data(csv, None, None)
         IN  IF processed_discover.status = "error" THEN {}
             ELSE combine_datasets(processed_discover.df,
                                   process_venmo_data(file.rows, None, None))

InitRecategorize ==
    /\ cardFile \in [1..1 -> CardRows]
    /\ venmoNative \in VenmoStatements(1) \ {<<>>}
    /\ categorized_data \in Stores(venmoNative)
    /\ venmoFile = [exists |-> TRUE,
                    rows |-> export_final_data(venmoNative, categorized_data)]
    /\ path \in {"cli", "web"}
    /\ ledger \in MergedLedgers(cardFile, venmoFile, path)
    /\ discoverOut = <<>>
    /\ venmoOut = <<>>
    /\ events = <<>>
    /\ pc = "loaded"
    /\ metrics = NoResult
    /\ insights = NoResult
    /\ rowIn = NoRow
    /\ rowOut = NoRowResult
    /\ window = <<>>
    /\ budgetIn = NoBudget
    /\ budgetOut = NoBudget
    /\ session = NoSession
    /\ categorizer = NoRun

\* enhanced_categorization called on the merged ledger
Recategorize ==
    /\ pc = "loaded"
    /\ rowOut' = recategorize(ledger)
    /\ pc' = "recategorized"
    /\ UNCHANGED <<cardFile, venmoNative, categorized_data, venmoFile, path,
                   discoverOut, venmoOut, ledger, events, metrics, insights, rowIn,
                   window, budgetIn, budgetOut, session, categorizer>>

NextRecategorize == Recategorize

SpecRecategorize == InitRecategorize /\ [][NextRecategorize]_vars

-----------------------------------------------------------------------------
(* The command-line categorizer (venmo_categorizer.py).  venmoNative is the     *)
(* frame of payments, categorized_data is self.categorized_data, and           *)
(* categorizer holds the position of categorize_transactions in its loop       *)
(* (index: the row of the frame the loop is at), skipped_count and the content *)
(* of the progress file.  Writes to the progress file succeed.                 *)

\* the number of payments of the largest statement
MaxTransactions == 6

\* the category the user chooses in a run of the model, and the one of loaded entries
ChosenCategory == "Other"

LoadedCategory == "Food & Dining"

\* statements whose rows differ in their ID
CategorizerStatements ==
    { [i \in 1..n |-> [ID |-> i, Datetime |-> 1, Note |-> DirectpayNote,
                       To |-> FriendName, From |-> OwnerName, Amount_Clean |-> 30]]
      : n \in 1..MaxTransactions }

\* the test that answers nothing is categorized yet
never_categorized(store, transaction_id) == FALSE

\* transaction_id in self.categorized_data (line 221)
already_categorized(store, transaction_id) == transaction_id \in DOMAIN store

\* self.categorized_data[transaction_id] = {'category': category, ...} (lines 245-253)
store_category(store, transaction_id, category) ==
    [id \in DOMAIN store \cup {transaction_id} |->
        IF id = transaction_id THEN [category |-> category] ELSE store[id]]

\* a test that is never true
autosave_never(store) == FALSE

\* len(self.categorized_data) % 5 == 0 (line 259)
autosave_due(store) == Cardinality(DOMAIN store) % 5 = 0

\* __init__ has loaded the progress file; main calls categorize_transactions(df)
InitCli ==
    /\ venmoNative \in CategorizerStatements
    /\ categorized_data \in
           { [id \in S |-> [category |-> LoadedCategory]]
             : S \in SUBSET {venmoNative[i].ID : i \in 1..Len(venmoNative)} }
    /\ categorizer = [at |-> "start", index |-> 0, skipped_count |-> 0,
                      progress_file |-> categorized_data]
    /\ cardFile = <<>>
    /\ venmoFile = NoFile
    /\ path = "none"
    /\ discoverOut = <<>>
    /\ venmoOut = <<>>
    /\ ledger = <<>>
    /\ events = <<>>
    /\ pc = "start"
    /\ metrics = NoResult
    /\ insights = NoResult
    /\ rowIn = NoRow
    /\ rowOut = NoRowResult
    /\ window = <<>>
    /\ budgetIn = NoBudget
    /\ budgetOut = NoBudget
    /\ session = NoSession

\* what a step of the command-line categorizer leaves alone
CliFrame ==
    UNCHANGED <<cardFile, venmoNative, path, discoverOut, venmoOut, ledger, events, pc,
                metrics, insights, rowIn, rowOut, window, budgetIn, budgetOut, session>>

\* categorize_transactions is entered; the frame is not empty (main, lines 347-349)
StartCategorization ==
    /\ categorizer.at = "start"
    /\ categorizer' = [categorizer EXCEPT !.at = "loop", !.index = 1]
    /\ UNCHANGED <<categorized_data, venmoFile>>
    /\ CliFrame

\* the loop is at a transaction already categorized: continue (lines 220-222)
SkipCategorized ==
    /\ categorizer.at = "loop"
    /\ categorizer.index <= Len(venmoNative)
    /\ already_categorized(categorized_data, venmoNative[categorizer.index].ID)
    /\ categorizer' = [categorizer EXCEPT !.index = @ + 1]
    /\ UNCHANGED <<categorized_data, venmoFile>>
    /\ CliFrame

\* the transaction is displayed and the user asked for a choice (lines 224-231)
PresentTransaction ==
    /\ categorizer.at = "loop"
    /\ categorizer.index <= Len(venmoNative)
    /\ ~already_categorized(categorized_data, venmoNative[categorizer.index].ID)
    /\ categorizer' = [categorizer EXCEPT !.at = "prompt"]
    /\ UNCHANGED <<categorized_data, venmoFile>>
    /\ CliFrame

\* the user confirms a category: the entry is stored (lines 243-255)
ChooseCategory ==
    /\ categorizer.at = "prompt"
    /\ categorized_data' = store_category(categorized_data,
                                          venmoNative[categorizer.index].ID,
                                          ChosenCategory)
    /\ categorizer' = [categorizer EXCEPT !.at = "stored"]
    /\ UNCHANGED venmoFile
    /\ CliFrame

\* the automatic save after an entry is stored, and the next turn of the loop
\* (lines 258-260)
AutoSave ==
    /\ categorizer.at = "stored"
    /\ categorizer' = [categorizer EXCEPT
                          !.at = "loop",
                          !.index = @ + 1,
                          !.progress_file = IF autosave_due(categorized_data)
                                            THEN categorized_data ELSE @]
    /\ UNCHANGED <<categorized_data, venmoFile>>
    /\ CliFrame

\* the user skips the transaction (lines 238-241)
ChooseSkip ==
    /\ categorizer.at = "prompt"
    /\ categorizer' = [categorizer EXCEPT !.at = "loop", !.index = @ + 1,
                                          !.skipped_count = @ + 1]
    /\ UNCHANGED <<categorized_data, venmoFile>>
    /\ CliFrame

\* the user chooses to save and exit, or interrupts at the prompt, which
\* get_user_choice turns into the same answer: save_progress and return (lines 233-236)
ChooseExit ==
    /\ categorizer.at = "prompt"
    /\ categorizer' = [categorizer EXCEPT !.at = "exited",
                                          !.progress_file = categorized_data]
    /\ UNCHANGED <<categorized_data, venmoFile>>
    /\ CliFrame

\* the loop has passed the last transaction: save_progress and export_final_data
\* (lines 262-268)
FinishLoop ==
    /\ categorizer.at = "loop"
    /\ categorizer.index > Len(venmoNative)
    /\ categorizer' = [categorizer EXCEPT !.at = "done",
                                          !.progress_file = categorized_data]
    /\ venmoFile' = [exists |-> TRUE,
                     rows |-> export_final_data(venmoNative, categorized_data)]
    /\ UNCHANGED categorized_data
    /\ CliFrame

NextCli ==
    \/ StartCategorization
    \/ SkipCategorized
    \/ PresentTransaction
    \/ ChooseCategory
    \/ AutoSave
    \/ ChooseSkip
    \/ ChooseExit
    \/ FinishLoop

SpecCli == InitCli /\ [][NextCli]_vars

-----------------------------------------------------------------------------
(* Properties *)

\* a payment marker in the description, whatever the case of its letters: the
\* description and the marker are compared in upper case
HasPaymentMarker(description) ==
    \E m \in PaymentMarkers : Contains(Upper(description), Upper(m))

\* a card-payment row: card origin, negative amount, payment marker
CardPaymentRow(row) ==
    row.Source = "Discover" /\ row.Amount < 0 /\ HasPaymentMarker(row.Description)

RowsWhere(df, P(_)) == {i \in 1..Len(df) : P(df[i])}

RECURSIVE SumValues(_)
SumValues(f) ==
    IF DOMAIN f = {} THEN 0
    ELSE LET k == CHOOSE x \in DOMAIN f : TRUE
         IN  f[k] + SumValues([x \in DOMAIN f \ {k} |-> f[x]])

RECURSIVE SumOver(_, _)
\* the sum of the amounts of the rows of df at the positions of the set
SumOver(df, positions) ==
    IF positions = {} THEN 0
    ELSE LET i == CHOOSE x \in positions : TRUE
         IN  df[i].Amount + SumOver(df, positions \ {i})

\* C1 (SpecRow): the peer-payment adapter negates the amount of the categorized file
\* exactly once; the file carries +|amount| when the recipient is the owner and
\* -|amount| otherwise, so a non-zero row to the owner has a negative canonical amount
\* and every other non-zero row a positive one; a row to the owner (without a payment
\* marker in its description) counts with |amount| in total income.
C1_VenmoSignFlippedOnce ==
    rowOut.fn \in {"venmo_row", "venmo_row_web"} =>
        LET native == rowIn.Amount_Clean
            to_owner == rowIn.To = OwnerName
            canonical == rowOut.value.Amount
        IN  /\ canonical = -rowOut.file.Amount
            /\ rowOut.file.Amount = IF to_owner THEN Abs(native) ELSE -Abs(native)
            /\ (native # 0 /\ to_owner) => canonical < 0
            /\ (native # 0 /\ ~to_owner) => canonical > 0
            /\ (to_owner /\ ~HasPaymentMarker(rowOut.value.Description)) =>
                   spending_insights(<<rowOut.value>>).total_income = Abs(native)

\* C1 witness: native +30 to the owner has become -30
C1_Witness ==
    /\ rowOut.fn = "venmo_row"
    /\ rowIn.To = OwnerName
    /\ rowIn.Amount_Clean = 30
    /\ rowOut.value.Amount = -30
    /\ spending_insights(<<rowOut.value>>).total_income = 30

\* C2 (Spec): no ledger returned by an entry point contains a card-payment row
C2_NoCardPaymentInLedger ==
    pc \in {"loaded", "analyzed"} =>
        \A i \in 1..Len(ledger) : ~CardPaymentRow(ledger[i])

\* C3 (Spec): the payment filter removes no peer-payment row: every row the
\* peer-payment adapter produced is in the ledger
C3_PeerPaymentRowsKept ==
    pc \in {"loaded", "analyzed"} =>
        LET FromVenmo(row) == row.Source = "Venmo"
        IN  Cardinality(RowsWhere(ledger, FromVenmo)) = Len(venmoOut)

\* C4 (Spec): the payment filter runs exactly once per run, and when the run merges
\* the two sources it runs after the merge
C4_FilterOnceAfterMerge ==
    pc \in {"loaded", "analyzed"} =>
        LET filters == {i \in 1..Len(events) : events[i] = "payment_filter"}
            merges == {i \in 1..Len(events) : events[i] = "merge"}
        IN  /\ Cardinality(filters) = 1
            /\ \A f \in filters : \A m \in merges : m < f

\* the description matches a branch of categorize_enhanced that tests keywords
MatchesKeywordGroup(desc) ==
    \/ Contains(desc, HousingProvider)
    \/ AnyIn(CoffeeKeywords \cup TechKeywords \cup TransportKeywords
             \cup AirlineKeywords \cup AsianKeywords \cup FastFoodKeywords
             \cup EduKeywords \cup GasKeywords \cup GroceryKeywords, desc)

\* C5 (SpecRow): the category assigned is neither null nor empty, and it is "Other"
\* when no rule matches and the source category is absent
C5_CategoryTotal ==
    rowOut.fn = "categorize_enhanced" =>
        /\ rowOut.value # NaN
        /\ rowOut.value # ""
        /\ (/\ ~MatchesKeywordGroup(Upper(rowIn.Description))
            /\ rowIn.Category = NaN) => rowOut.value = "Other"

\* C6 (SpecRow): a coffee keyword (and no housing-provider string) gives
\* "Coffee & Cafes" whatever the source category; source category "Restaurants"
\* with no keyword group matched gives "Restaurants & Dining"
C6_CoffeeBeforeRestaurants ==
    rowOut.fn = "categorize_enhanced" =>
        LET desc == Upper(rowIn.Description)
        IN  /\ (AnyIn(CoffeeKeywords, desc) /\ ~Contains(desc, HousingProvider))
                   => rowOut.value = "Coffee & Cafes"
            /\ (rowIn.Category = "Restaurants" /\ ~MatchesKeywordGroup(desc))
                   => rowOut.value = "Restaurants & Dining"

\* the vendor-brand keyword groups in their order of priority, with their categories
BrandGroups ==
    << [keywords |-> CoffeeKeywords, label |-> "Coffee & Cafes"],
       [keywords |-> TechKeywords, label |-> "Tech & Software"],
       [keywords |-> TransportKeywords, label |-> "Transportation"],
       [keywords |-> AirlineKeywords, label |-> "Air Travel"],
       [keywords |-> AsianKeywords \cup FastFoodKeywords, label |-> "Restaurants & Dining"],
       [keywords |-> EduKeywords, label |-> "Education/Work"],
       [keywords |-> GasKeywords, label |-> "Gas & Fuel"],
       [keywords |-> GroceryKeywords, label |-> "Groceries & Supermarkets"] >>

HasBrand(desc) == \E i \in 1..Len(BrandGroups) : AnyIn(BrandGroups[i].keywords, desc)

\* the category of the first brand group with a keyword in the description
FirstBrandLabel(desc) ==
    LET first == CHOOSE i \in 1..Len(BrandGroups) :
                    /\ AnyIn(BrandGroups[i].keywords, desc)
                    /\ \A j \in 1..(i - 1) : ~AnyIn(BrandGroups[j].keywords, desc)
    IN  BrandGroups[first].label

\* C7 as stated (SpecRow): a description with a brand keyword gets the category of
\* the first matching brand group, whatever the source category
C7_BrandBeforeSourceCategory ==
    rowOut.fn = "categorize_enhanced" =>
        LET desc == Upper(rowIn.Description)
        IN  HasBrand(desc) => rowOut.value = FirstBrandLabel(desc)

\* C7 amended (SpecRow): a description with a brand keyword and without the
\* housing-provider string gets the category of the first matching brand group,
\* unless the source category is "Restaurants" and that group is education, gas or
\* grocery: then it is "Restaurants & Dining"
C7_BrandPriorityExceptRestaurants ==
    rowOut.fn = "categorize_enhanced" =>
        LET desc == Upper(rowIn.Description)
        IN  (HasBrand(desc) /\ ~Contains(desc, HousingProvider)) =>
                rowOut.value =
                    IF /\ rowIn.Category = "Restaurants"
                       /\ FirstBrandLabel(desc) \in
                            {"Education/Work", "Gas & Fuel", "Groceries & Supermarkets"}
                    THEN "Restaurants & Dining"
                    ELSE FirstBrandLabel(desc)

\* C7 witness: a gas brand with the source category "Groceries" is "Gas & Fuel"
C7_Witness ==
    /\ rowOut.fn = "categorize_enhanced"
    /\ rowIn.Description = <<"S", "H", "E", "L", "L", " ", "O", "I", "L">>
    /\ rowIn.Category = "Groceries"
    /\ rowOut.value = "Gas & Fuel"

\* C8 (Spec): the net-by-category amounts add up to the net total of the same
\* aggregation (spending_insights, calculate_basic_metrics)
C8_CategorySumsEqualNet ==
    /\ (insights.status = "ok" /\ insights.by = "spending_insights")
           => SumValues(insights.category_net) = insights.net_spending
    /\ metrics.status = "ok"
           => SumValues(metrics.category_net) = metrics.net_spending

\* C9 (SpecAgg): total income is the absolute sum of the negative amounts of the rows
\* that are not card-payment rows, total expense the sum of the positive amounts
\* (generate_financial_summary: of the rows of some date range)
C9_IncomeExcludesCardPayments ==
    insights.status = "ok" =>
        LET Totals(df) ==
                LET Pos(row) == row.Amount > 0
                    Inc(row) == row.Amount < 0 /\ ~CardPaymentRow(row)
                IN  /\ insights.total_expenses = SumOver(df, RowsWhere(df, Pos))
                    /\ insights.total_income = Abs(SumOver(df, RowsWhere(df, Inc)))
        IN  IF insights.by = "generate_financial_summary"
            THEN \E r \in DateRanges :
                    Totals(IF r = None THEN ledger
                           ELSE DateFilter(ledger, <<r[1]>>, <<r[2]>>))
            ELSE Totals(ledger)

\* C10 (SpecRow): a positive amount is Expense whatever the description, a negative
\* amount with a payment marker (in any case) is Credit Card Payment, every other
\* negative amount is Credit/Payment
C10_ClassifyTransaction ==
    rowOut.fn \in {"classify_transaction", "classify_transaction_web"} =>
        /\ rowOut.value \in {"Expense", "Credit Card Payment", "Credit/Payment"}
        /\ rowIn.Amount > 0 => rowOut.value = "Expense"
        /\ (rowIn.Amount < 0 /\ HasPaymentMarker(rowIn.Description))
               => rowOut.value = "Credit Card Payment"
        /\ (rowIn.Amount < 0 /\ ~HasPaymentMarker(rowIn.Description))
               => rowOut.value = "Credit/Payment"

\* C10 witness: a negative amount described "Internet Payment - Thank You"
C10_Witness ==
    /\ rowOut.fn = "classify_transaction"
    /\ rowIn.Description = PaymentDescription
    /\ rowIn.Amount < 0
    /\ rowOut.value = "Credit Card Payment"

\* the concatenation of the adapter outputs that the entry point of the run sorts:
\* card rows in input order, then peer-payment rows in input order
Concatenation ==
    LET ToCommon(row) == Restrict(row, CommonColumns)
    IN  IF path = "cli"
        THEN enhanced_categorization(discoverOut) \o MapRows(venmoOut, ToCommon)
        ELSE MapRows(discoverOut, ToCommon) \o MapRows(venmoOut, ToCommon)

\* C11 (Spec): the ledger an entry point returns is in ascending date order, and when
\* the two adapter outputs were merged the rows of one date are in the order they
\* have in the concatenation of the adapter outputs
C11_LedgerSortedStable ==
    pc = "loaded" =>
        /\ \A i, j \in 1..Len(ledger) :
               i < j => ledger[i].TransDate <= ledger[j].TransDate
        /\ (\E k \in 1..Len(events) : events[k] = "merge") =>
               ledger = IF path = "cli"
                        THEN FilterPayments(SortByDate(Concatenation))
                        ELSE SortByDate(Concatenation)

\* the date is inside the window given to the entry point
InWindow(d) ==
    /\ window[1] = None \/ d >= window[1][1]
    /\ window[2] = None \/ d <= window[2][1]

\* the peer-payment file was given to the run
VenmoGiven ==
    /\ venmoFile.exists
    /\ \E k \in 1..Len(events) : events[k] = "venmo_adapter"

\* C12 (SpecWindow): after a run of an entry point a row of either origin is in the
\* ledger if and only if its date is inside the closed window (a missing bound does
\* not restrict), rows that meet the payment filter's condition apart; and the
\* payment filter runs only after the adapters of both origins have removed the rows
\* outside the window
C12_DateWindowInclusive ==
    pc # "start" =>
        /\ \A d \in Days :
            LET Kept(src) ==
                    { i \in 1..Len(ledger) :
                        /\ ledger[i].TransDate = d
                        /\ ledger[i].Source = src
                        /\ ~(ledger[i].Amount < 0
                             /\ HasPaymentMarker(ledger[i].Description)) }
                Card == { i \in 1..Len(cardFile) :
                            /\ cardFile[i].TransDate = d
                            /\ ~(cardFile[i].Amount < 0
                                 /\ HasPaymentMarker(cardFile[i].Description)) }
                Venmo == IF VenmoGiven
                         THEN { i \in 1..Len(venmoFile.rows) :
                                  /\ venmoFile.rows[i].Date = d
                                  /\ ~(-venmoFile.rows[i].Amount < 0
                                       /\ HasPaymentMarker(venmoFile.rows[i].Description)) }
                         ELSE {}
            IN  IF InWindow(d)
                THEN /\ Cardinality(Kept("Discover")) = Cardinality(Card)
                     /\ Cardinality(Kept("Venmo")) = Cardinality(Venmo)
                ELSE \A i \in 1..Len(ledger) : ledger[i].TransDate # d
        /\ \A k \in 1..Len(events) :
               events[k] = "payment_filter" =>
                   /\ \E c \in 1..(k - 1) : events[c] = "card_adapter"
                   /\ VenmoGiven => \E v \in 1..(k - 1) : events[v] = "venmo_adapter"

\* the frame the payment filter of the run returned: the combined frame
\* (load_and_clean_data), the card frame (process_discover_data)
FilteredFrame == IF path = "cli" THEN ledger ELSE discoverOut

\* C13 (SpecWindow): the payment filter applied to a frame it has already filtered
\* removes no row and returns the same frame
C13_FilterIdempotent ==
    (pc = "loaded" /\ \E k \in 1..Len(events) : events[k] = "payment_filter") =>
        /\ Len(FilterPayments(FilteredFrame)) = Len(FilteredFrame)
        /\ FilterPayments(FilteredFrame) = FilteredFrame

\* C13 witness: the filter has removed a card-payment row and kept another row
C13_Witness ==
    /\ pc = "loaded"
    /\ \E k \in 1..Len(events) : events[k] = "payment_filter"
    /\ \E i \in 1..Len(cardFile) :
           /\ cardFile[i].Amount < 0
           /\ HasPaymentMarker(cardFile[i].Description)
           /\ InWindow(cardFile[i].TransDate)
    /\ Len(FilteredFrame) > 0
    /\ Len(FilteredFrame) < Len(cardFile) + Len(venmoOut)

\* the quantities of the budget projector, read off the inputs of either implementation
WindowStart ==
    IF budgetIn.fn = "internship_analysis" THEN budgetIn.income_start_date
    ELSE budgetIn.internship_start

WindowEnd ==
    IF budgetIn.fn = "internship_analysis" THEN budgetIn.income_end_date
    ELSE budgetIn.internship_end

WindowLengthDays == WindowEnd - WindowStart + 1

Clamp(x, lo, hi) == Max(lo, Min(x, hi))

\* the budget projector has run and returned its figures
Budgeted == pc = "budgeted" /\ budgetOut.status = "ok"

\* the number of days the implementation allocates the periodic cost for
ElapsedDays ==
    IF budgetOut.fn = "internship_analysis" THEN Max(0, budgetOut.days_so_far)
    ELSE budgetOut.days_elapsed

\* C14: in both implementations and for every today, the elapsed days are
\* clamp(today - window_start + 1, 0, window_length_days), and the rent allocated so
\* far by internship_analysis is never more than the total rent
C14_ElapsedDaysClamped ==
    Budgeted =>
        /\ ElapsedDays = Clamp(budgetIn.today - WindowStart + 1, 0, WindowLengthDays)
        /\ budgetOut.fn = "internship_analysis" =>
               ~FLt(Float(budgetIn.total_rent), budgetOut.allocated_rent)

\* Scenario D: window day 1 to day 10, total rent 100, run on day 5, no transactions
ScenarioD == internship_analysis(<<>>, 1, 1, 10, 0, 100, 5)

\* C15: internship_analysis and its chart take total_rent / inclusive days of the
\* window as the daily rate, and the rent allocated so far is the rate times the
\* elapsed days clamp(today - window_start + 1, 0, window_length_days); Scenario D
\* gives rate 10, 5 elapsed days and an allocation of 50
C15_DailyRateAndAllocation ==
    /\ FEq(ScenarioD.daily_rent, Float(10))
    /\ ScenarioD.days_so_far = 5
    /\ FEq(ScenarioD.allocated_rent, Float(50))
    /\ (Budgeted /\ budgetOut.fn = "internship_analysis") =>
           /\ FEq(budgetOut.daily_rent, Frac(budgetIn.total_rent, WindowLengthDays))
           /\ FEq(budgetOut.chart.daily_rent, budgetOut.daily_rent)
           /\ FEq(budgetOut.allocated_rent,
                  FTimes(budgetOut.daily_rent,
                         Clamp(budgetIn.today - WindowStart + 1, 0, WindowLengthDays)))

\* C16: in both implementations, when today is after the end of the window no day
\* remains and the projected total at the end of the window is the net amount spent
\* so far
C16_NoProjectionPastWindow ==
    (Budgeted /\ budgetIn.today > WindowEnd) =>
        IF budgetOut.fn = "internship_analysis"
        THEN /\ budgetOut.days_remaining = 0
             /\ FEq(budgetOut.projected_total_net_spending, budgetOut.net_spent)
        ELSE /\ budgetOut.remaining_days = 0
             /\ FEq(budgetOut.projected_total_spending,
                    Float(budgetOut.total_actual_spending))

\* the net amount spent so far as the budget projector defines it, from the frame the
\* implementation was given: purchases other than rent in the window up to today,
\* plus the rent the implementation has allocated, minus the income of the window
ActualNetSpendSoFar ==
    LET cli == budgetOut.fn = "internship_analysis"
        Purchase(row) ==
            /\ row.Amount > 0
            /\ ~(IF cli THEN RentPayment(row) ELSE rent_mask(row))
            /\ row.TransDate >= WindowStart
            /\ row.TransDate <= Min(WindowEnd, budgetIn.today)
        Income(row) ==
            /\ row.Amount < 0
            /\ ~StrContainsMarker(row.Description)
            /\ row.TransDate >= WindowStart
            /\ row.TransDate <= WindowEnd
        allocated == IF cli THEN budgetOut.allocated_rent
                     ELSE Float(budgetOut.smooth_rent_total)
    IN  FSub(FAdd(Float(SumAmount(SelectSeq(ledger, Purchase))), allocated),
             Float(Abs(SumAmount(SelectSeq(ledger, Income)))))

\* C17: whenever the budget projector returns its figures, remaining_budget is the
\* income budget minus the net amount spent so far
C17_RemainingBudget ==
    Budgeted =>
        IF budgetOut.fn = "internship_analysis"
        THEN FEq(budgetOut.remaining_budget,
                 FSub(Float(budgetIn.gross_income), ActualNetSpendSoFar))
        ELSE /\ budgetOut.remaining_budget # None
             /\ FEq(budgetOut.remaining_budget[1],
                    FSub(Float(budgetIn.total_income), ActualNetSpendSoFar))

\* a ratio that came out as the number 0
IsZero(x) == x = FloatZero

\* C18: no ratio of the budget projector raises on a zero denominator, each yields 0:
\* total_rent / total_internship_days for a window of no days, the reduction per day
\* remaining_budget / days_remaining when today is the last day of the window, and
\* projected_surplus_deficit / total_income for an income budget of 0
C18_ZeroDenominatorYieldsZero ==
    (pc = "budgeted" /\ ledger # <<>>) =>
        IF budgetOut.fn = "internship_analysis"
        THEN /\ WindowLengthDays = 0 =>
                    budgetOut.status = "ok" /\ IsZero(budgetOut.daily_rent)
             /\ ( /\ budgetOut.status = "ok"
                  /\ budgetOut.days_remaining = 0
                  /\ FLt(budgetOut.remaining_budget, FloatZero) ) => IsZero(budgetOut.per_day)
        ELSE (budgetOut.status = "ok" /\ budgetIn.total_income = 0) =>
                 IsZero(budgetOut.budget_variance_pct)

\* C19: every aggregation over a ledger returns a result, also when the date window
\* of the call leaves no row of the ledger: none returns a missing result
C19_EmptyLedgerAggregations ==
    pc = "aggregated" => insights.status = "ok"

\* the rows of a file that have a date and a numeric amount
WellFormed(rows, date) ==
    LET Good(row) == row[date] # BadText /\ row.Amount # BadText
    IN  SelectSeq(rows, Good)

\* what the call that has run returns on the well-formed rows of its files alone
WellFormedOutcomes ==
    LET csv == WellFormed(cardFile, "TransDate")
        file == [exists |-> venmoFile.exists, rows |-> WellFormed(venmoFile.rows, "Date")]
    IN  IF events = <<"card_adapter">>
        THEN (IF path = "cli"
              THEN load_and_clean_data_file(csv, file, window[1], window[2])
              ELSE {process_discover_data_file(csv, window[1], window[2])})
        ELSE (IF path = "cli"
              THEN {load_venmo_data_file(file, window[1], window[2])}
              ELSE {process_venmo_data_file(file.rows, window[1], window[2])})

\* C20: whatever the files hold, a call of either adapter returns what it returns on
\* the rows that have a date and a numeric amount: a row with text in its date or
\* amount is left out and never ends the parse
C20_BadRowsExcluded ==
    pc # "start" => [status |-> pc, df |-> ledger] \in WellFormedOutcomes

\* the columns the card file lacks of those the entry point that has run requires,
\* and those the peer-payment file lacks
MissingCardColumns ==
    (IF path = "cli" THEN StatementColumns ELSE CardColumns) \ DOMAIN cardFile[1]

MissingVenmoColumns == VenmoColumns \ DOMAIN venmoFile.rows[1]

\* C21: a card file that lacks a required column gives an error and no ledger; a
\* peer-payment file that lacks one is left out with an error, and the ledger of the
\* card file is still produced
C21_MissingColumnFailsFast ==
    pc # "start" =>
        /\ MissingCardColumns # {} => pc = "error" /\ ledger = <<>> /\ events # <<>>
        /\ (MissingCardColumns = {} /\ MissingVenmoColumns # {}) =>
               /\ pc = "loaded"
               /\ events # <<>>
               /\ Len(ledger) = 1
               /\ ledger[1].Source = "Discover"

\* C22: once a category has been overridden, the internship metrics the session
\* keeps and shows are those of the ledger as it is now
C22_OverrideInvalidatesMetrics ==
    (pc = "budgeted" /\ events # <<>> /\ events[Len(events)] \in EditEvents) =>
        budgetOut = calculate_internship_metrics(ledger, budgetIn.internship_start,
                        budgetIn.internship_end, budgetIn.total_income,
                        budgetIn.daily_rent, budgetIn.today)

\* C23: after progress is saved and a later session resumes from it, a transaction
\* carries a restored category if and only if that category was assigned to that same
\* transaction: every transaction of the resumed session has exactly the category
\* (or none) that the transaction at its place in the file had when progress was saved
C23_ProgressPerTransaction ==
    (venmoFile.exists /\ events = <<"upload">> /\ venmoFile.progress # <<>>) =>
        \A i \in 1..Len(session.venmo_transactions) :
            session.venmo_transactions[i].category = venmoFile.progress[i].category

\* C30: in the web categorizer, once the last transaction of a non-empty list has been
\* assigned a category the session is in the completion state, where the index is at
\* least the number of transactions
C30_CompletionReached ==
    [][ ( /\ Categorizing
          /\ session.current_transaction_index + 1 = Len(session.venmo_transactions)
          /\ events' = <<"assign">>
          /\ session'.venmo_transactions # session.venmo_transactions )
        => session'.current_transaction_index >= Len(session'.venmo_transactions) ]_vars

\* C24: every call site that loads the categorized peer-payment file yields the same
\* canonical amount for the same row of the file: the debug script's loader gives the
\* amount the loaders of the command line and of the web application give
C24_SameAmountAtEveryCallSite ==
    rowOut.fn = "venmo_row_debug" =>
        /\ rowOut.value.Amount = venmo_row(rowOut.file).Amount
        /\ rowOut.value.Amount = venmo_row_web(rowOut.file).Amount

\* the place of the first row of the ledger with the description
FirstOccurrence(df, description) ==
    CHOOSE i \in 1..Len(df) :
        /\ df[i].Description = description
        /\ \A j \in 1..(i - 1) : df[j].Description # description

\* C25: in a top-N merchant ranking, merchants with equal total spend are ordered by
\* their first occurrence in the ledger
C25_TiesInLedgerOrder ==
    insights.status = "ranked" =>
        \A i, j \in 1..Len(insights.top_merchants) :
            (i < j /\ insights.top_merchants[i].Amount = insights.top_merchants[j].Amount)
                => FirstOccurrence(ledger, insights.top_merchants[i].Description)
                       < FirstOccurrence(ledger, insights.top_merchants[j].Description)

\* C26: running the categorizer again on an already categorized merged ledger keeps
\* the category of every row, card or peer-payment
C26_RecategorizeKeepsCategories ==
    pc = "recategorized" =>
        /\ rowOut.status = "ok"
        /\ Len(rowOut.value) = Len(ledger)
        /\ \A i \in 1..Len(ledger) :
               rowOut.value[i].Enhanced_Category = ledger[i].Enhanced_Category

\* C27: the type classification and the payment exclusion filter select the same card
\* rows: after the filter has run no row left carries the type 'Credit Card Payment',
\* and a row the filter removed carried that type
C27_FilterMatchesType ==
    (rowOut.fn = "process_discover_data" /\ rowOut.value.status = "ok") =>
        /\ \A i \in 1..Len(rowOut.value.df) :
               rowOut.value.df[i].Type # "Credit Card Payment"
        /\ rowOut.value.df = <<>> =>
               classify_transaction_web(rowIn) = "Credit Card Payment"

\* C28: in the command-line categorizer no step of categorize_transactions changes or
\* removes an entry already in the progress store, and a transaction whose id is in the
\* store is never presented to the user
C28_StoreAppendOnly ==
    [][ /\ \A id \in DOMAIN categorized_data :
               /\ id \in DOMAIN categorized_data'
               /\ categorized_data'[id] = categorized_data[id]
        /\ categorizer'.at = "prompt" =>
               venmoNative'[categorizer'.index].ID \notin DOMAIN categorized_data' ]_vars

\* C28 witness: the loop has ended after passing a loaded entry, which is as loaded,
\* and storing a new one
C28_Witness ==
    /\ categorizer.at = "done"
    /\ \E id \in DOMAIN categorized_data :
           /\ categorized_data[id].category = LoadedCategory
           /\ id \in DOMAIN categorizer.progress_file
    /\ \E id \in DOMAIN categorized_data :
           categorized_data[id].category = ChosenCategory

\* the categorizations held in memory that the progress file does not hold
Unsaved ==
    { id \in DOMAIN categorized_data :
        \/ id \notin DOMAIN categorizer.progress_file
        \/ categorizer.progress_file[id] # categorized_data[id] }

\* C29 as stated: at every point of categorize_transactions at most 4 categorizations
\* are held in memory without having been written to the progress file, and when the
\* loop has ended every categorization has been written
C29_AtMostFourUnsaved ==
    /\ Cardinality(Unsaved) <= 4
    /\ categorizer.at \in {"exited", "done"} => Unsaved = {}

\* C29 amended: whenever the loop is between two transactions or waits for the user's
\* choice at most 4 categorizations are unwritten; between storing an entry and the
\* automatic save that follows it in the same turn there can be 5; and when the loop
\* has ended every categorization has been written
C29_AtMostFourUnsavedBetweenTurns ==
    /\ categorizer.at # "stored" => Cardinality(Unsaved) <= 4
    /\ Cardinality(Unsaved) <= 5
    /\ categorizer.at \in {"exited", "done"} => Unsaved = {}

\* C29 witness: the user is asked about the next transaction after the fifth entry of
\* the run was stored and saved automatically
C29_Witness ==
    /\ categorizer.at = "prompt"
    /\ Cardinality(DOMAIN categorized_data) = 5
    /\ \A id \in DOMAIN categorized_data : categorized_data[id].category = ChosenCategory
    /\ Unsaved = {}

====
